---- MODULE Spec2Model ----
(***************************************************************************)
(* SAMA7G5 clock tree (linux4sam/optee_os): the sam9x60 fractional and     *)
(* divider PLL nodes (clk-sam9x60-pll.c) and the MCK1..4 master nodes      *)
(* (sama7g5_clk.c), as state machines over the node structures and the    *)
(* PMC registers they program.                                             *)
(*                                                                         *)
(* The target is a 32-bit ARM core: unsigned long is 32 bits wide.  Rates  *)
(* are kept below 2^31, where none of the 32-bit sums of the code wraps;   *)
(* the 64-bit products of the fractional computation are evaluated         *)
(* exactly by MulDiv without ever forming a value of 2^31 or more.         *)
(***************************************************************************)
EXTENDS Integers, Naturals, Sequences, FiniteSets, TLC

VARIABLES
    pc,            \* position of the driver: which call is in progress
    core_id,       \* sam9x60_pll_core.id / clk_master_sama7.id of the node
    parent_rate,   \* rate of the node's parent clock
    frac_mul,      \* struct sam9x60_frac.mul
    frac_frac,     \* struct sam9x60_frac.frac
    div_div,       \* struct sam9x60_div.div
    div_chg,       \* TRUE: sam9x60_div_pll_ops_chg, FALSE: sam9x60_div_pll_ops
    div_layout,    \* the divider's clk_pll_layout: "divpmc" or "divio"
    master,        \* struct clk_master_sama7: [parent, div]
    pll_updt,      \* PMC_PLL_UPDT: [id, update]
    pll_ctrl0,     \* PMC_PLL_CTRL0 of each PLL id: [divpmc, divio, endivpmc,
                   \*     endivio, enpll, enlock]
    pll_ctrl1,     \* PMC_PLL_CTRL1 of each PLL id: [mul, rsvd, fracr]
    pll_isr0,      \* PMC_PLL_ISR0: lock bit of each PLL id
    mcr_v2,        \* PMC_MCR_V2 of each master id: [css, div, en]
    writes,        \* registers written by the call in progress or last returned
    last,          \* the last call: operation, arguments, state before, result
    achieved,      \* value returned by the last successful rate computation
    by_driver,     \* the fractional state was computed by the driver
    mck_sr,        \* PMC_SR: [rdy] the MCKXRDY bit, [sr_read] the call read it
    race,          \* two PLL operations interleaved: their positions
    setup,         \* pmc_setup_sama7g5: position, registered nodes, heap
    matrix,        \* bus matrix: error interrupt registers and handler
    tcb,           \* timer counter block: counters and the reader's position
    periph         \* bus matrix: peripheral security selection (SPSELR)

vars == <<pc, core_id, parent_rate, frac_mul, frac_frac, div_div, div_chg,
          div_layout, master, pll_updt, pll_ctrl0, pll_ctrl1, pll_isr0, mcr_v2, writes,
          last, achieved, by_driver, mck_sr, race, setup, matrix, tcb,
          periph>>

\* State of the parts a node's own operations never touch.
extState == <<mck_sr, race, setup, matrix, tcb, periph>>

\* Their values while the part is not in use.
MckSrIdle == [rdy |-> TRUE, sr_read |-> FALSE]
RaceIdle == [procs |-> <<>>, calls |-> 0, stray |-> FALSE, overlap |-> FALSE]
SetupIdle ==
    [pc |-> "off", step |-> 0, nodes |-> <<>>, heap |-> {}, failed |-> "",
     locals |-> <<>>]
MatrixIdle ==
    [pc |-> "off", meier |-> 0, meimr |-> 0, mesr |-> 0, master |-> 0,
     handled |-> 0]

TcbIdle == [pc |-> "off"]
PeriphIdle == [pc |-> "off"]

ExtIdle ==
    /\ mck_sr = MckSrIdle
    /\ race = RaceIdle
    /\ setup = SetupIdle
    /\ matrix = MatrixIdle
    /\ tcb = TcbIdle
    /\ periph = PeriphIdle

(***************************************************************************)
(* Program constants.                                                      *)
(***************************************************************************)
ERANGE == 1
PLL_ID_MAX == 7
FRAC_BITS == 22
MUL_BITS == 8
U8 == 256
core_output_min == 600000000
core_output_max == 1200000000
input_min == 12000000
input_max == 50000000

(***************************************************************************)
(* Bounds of the explored inputs.                                          *)
(***************************************************************************)
RateSpread == 2
MulSteps == 2

Pow2(n) == 2 ^ n

PllIds == 0 .. (PLL_ID_MAX - 1)

\* pll_layout_frac: MUL is bits 31..24, FRACR bits 21..0, bits 23..22 between.
FracWord(v) == v % Pow2(FRAC_BITS)
RsvdWord(v) == (v \div Pow2(FRAC_BITS)) % 4
MulWord(v) == v % Pow2(MUL_BITS)

(***************************************************************************)
(* 64-bit arithmetic.  The driver forms two 64-bit products, x * 2^22      *)
(* divided by the parent rate and x * y divided by 2^22.  Both are         *)
(* evaluated exactly, in pieces that stay below 2^31.                      *)
(***************************************************************************)
\* One step of long division: qr is <<quotient, remainder>> of n by d,
\* the result that of n * 2^k by d (d < 2^(31-k)).
DivStep(qr, k, d) ==
    <<(qr[1] * Pow2(k)) + ((qr[2] * Pow2(k)) \div d), (qr[2] * Pow2(k)) % d>>

\* <<(a * 2^22) \div d, (a * 2^22) % d>>, for d < 2^27.
ShlDiv(a, d) ==
    LET s0 == <<a \div d, a % d>>
        s1 == DivStep(s0, 4, d)
        s2 == DivStep(s1, 4, d)
        s3 == DivStep(s2, 4, d)
        s4 == DivStep(s3, 4, d)
        s5 == DivStep(s4, 4, d)
    IN  DivStep(s5, 2, d)

\* <<(a * b) \div 2^22, (a * b) % 2^22>> from the 11-bit halves of a and b,
\* for a 22-bit word (at most 2^22) times a rate below 2^30, either way.
MulShr(a, b) ==
    LET h == Pow2(11)
        ah == a \div h
        al == a % h
        bh == b \div h
        bl == b % h
        mid == (ah * bl) + (al * bh)
        low == ((mid % h) * h) + (al * bl)
    IN  <<(ah * bh) + (mid \div h) + (low \div Pow2(22)), low % Pow2(22)>>

\* <<(a * b) \div d, (a * b) % d>> for the two shapes above.
MulDiv(a, b, d) ==
    IF b = Pow2(FRAC_BITS) THEN ShlDiv(a, d) ELSE MulShr(a, b)

\* DIV_ROUND_NEAREST((uint64_t)a * b, d): nearest rounding of a*b/d.
DIV_ROUND_NEAREST(a, b, d) ==
    LET qr == MulDiv(a, b, d) IN qr[1] + ((qr[2] + (d \div 2)) \div d)

\* DIV_ROUND_CLOSEST_ULL((unsigned long long)a * b, d): the unsigned branch.
DIV_ROUND_CLOSEST_ULL(a, b, d) ==
    LET qr == MulDiv(a, b, d) IN qr[1] + ((qr[2] + (d \div 2)) \div d)

\* DIV_ROUND_CLOSEST(x, divisor) on unsigned long.
DIV_ROUND_CLOSEST(x, d) == (x + (d \div 2)) \div d

\* mult_frac(x, numer, denom)
mult_frac(x, numer, denom) ==
    ((x \div denom) * numer) + (((x % denom) * numer) \div denom)

(***************************************************************************)
(* sam9x60_frac_pll_compute_mul_frac: [ret, mul, frac].  ret is -ERANGE or *)
(* the achieved rate; mul and frac are the values stored when update is    *)
(* set and the computation succeeds (the stored ones otherwise).           *)
(***************************************************************************)
FracRangeCheckWrong(rate) == rate < core_output_min - 1 \/ rate > core_output_max + 1

FracOutOfRange(rate) == rate < core_output_min \/ rate > core_output_max

FracAchievedNoRound(tmprate, nfrac, prate) ==
    tmprate + MulDiv(nfrac, prate, Pow2(FRAC_BITS))[1]

FracAchievedShift21(tmprate, nfrac, prate) ==
    tmprate + (2 * DIV_ROUND_NEAREST(nfrac, prate, Pow2(FRAC_BITS)))

FracAchieved(tmprate, nfrac, prate) ==
    tmprate + DIV_ROUND_NEAREST(nfrac, prate, Pow2(FRAC_BITS))

sam9x60_frac_pll_compute_mul_frac(mul, frac, rate, prate) ==
    IF FracOutOfRange(rate)
    THEN [ret |-> -ERANGE, mul |-> mul, frac |-> frac]
    ELSE LET nmul == mult_frac(rate, 1, prate)
             tmp0 == mult_frac(prate, nmul, 1)
             remainder == rate - tmp0
             nfrac == IF remainder # 0
                      THEN DIV_ROUND_NEAREST(remainder, Pow2(FRAC_BITS), prate)
                      ELSE 0
             tmprate == IF remainder # 0
                        THEN FracAchieved(tmp0, nfrac, prate)
                        ELSE tmp0
         IN  IF FracOutOfRange(tmprate)
             THEN [ret |-> -ERANGE, mul |-> mul, frac |-> frac]
             ELSE [ret |-> tmprate, mul |-> (nmul - 1) % 65536, frac |-> nfrac]

\* sam9x60_frac_pll_recalc_rate (pll_layout_frac has div2 = 0)
sam9x60_frac_pll_recalc_rate(mul, frac, prate) ==
    (prate * (mul + 1)) + DIV_ROUND_CLOSEST_ULL(prate, frac, Pow2(FRAC_BITS))

(***************************************************************************)
(* Inputs.                                                                 *)
(***************************************************************************)
\* Parent (mainck / main_xtal) rates inside clk_pll_charac.input.
ParentRates == {input_min, input_min + 8, 2 * input_min, input_max}

\* Requested rates around both ends of core_outputs, around whole multiples
\* of the parent rate, and far outside the range.
FracTargets(prate) ==
    {core_output_min + d : d \in (0 - RateSpread) .. RateSpread}
    \cup {core_output_max + d : d \in (0 - RateSpread) .. RateSpread}
    \cup {((core_output_min \div prate) + j) * prate - d :
              j \in 1 .. MulSteps, d \in 0 .. RateSpread}
    \cup {core_output_min + (j * 123456789) : j \in 1 .. MulSteps}
    \cup {0, 2000000000}

\* CTRL1 words a bootloader may have left: reset value, and a running PLL.
BootCtrl1 == {[mul |-> 0, rsvd |-> 0, fracr |-> 0],
              [mul |-> 49, rsvd |-> 0, fracr |-> 1398101]}

Ctrl0Reset ==
    [divpmc |-> 0, divio |-> 0, endivpmc |-> FALSE, endivio |-> FALSE,
     enpll |-> FALSE, enlock |-> FALSE]

NoCall == [op |-> "none", arg |-> 0, ret |-> 0, done |-> TRUE, pre |-> <<0, 0, 0>>]

\* The PLL registers as a call finds them.
HwPre == [isr0 |-> pll_isr0, ctrl0 |-> pll_ctrl0, ctrl1 |-> pll_ctrl1]

\* last.pre of a call on the fractional node: the stored mul and frac, the
\* rate achieved so far, and the registers, all before the call.
FracPre == <<frac_mul, frac_frac, achieved, HwPre>>

Call(op, arg, ret, done, pre) ==
    [op |-> op, arg |-> arg, ret |-> ret, done |-> done, pre |-> pre]

MasterIds == 1 .. 4

\* PMC_MCR_V2 fields of a master clock the driver never programmed.
McrReset == [css |-> 0, div |-> 0, en |-> FALSE]

(***************************************************************************)
(* Register access.                                                        *)
(***************************************************************************)
\* sam9x60_pll_ready: the lock bit of `id' in PMC_PLL_ISR0.
sam9x60_pll_ready(id) == pll_isr0[id]

\* The word (mul << mul_shift) | (frac << frac_shift) as CTRL1 fields.
Ctrl1Word(mul, frac) ==
    [mul |-> MulWord(mul), rsvd |-> RsvdWord(frac), fracr |-> FracWord(frac)]

(***************************************************************************)
(* Fractional PLL node.                                                    *)
(***************************************************************************)
FracIdle ==
    /\ div_div = 0
    /\ div_chg = FALSE
    /\ div_layout = "divpmc"
    /\ master = [parent |-> 0, div |-> 0]
    /\ mcr_v2 = [i \in MasterIds |-> McrReset]

InitFrac ==
    /\ pc = "unregistered"
    /\ core_id \in PllIds
    /\ parent_rate \in ParentRates
    /\ frac_mul = 0
    /\ frac_frac = 0
    /\ pll_updt = [id |-> 0, update |-> FALSE]
    /\ pll_ctrl0 = [i \in PllIds |-> Ctrl0Reset]
    /\ \E w \in BootCtrl1, l \in BOOLEAN :
          /\ pll_ctrl1 = [i \in PllIds |->
                            IF i = core_id THEN w
                            ELSE [mul |-> 0, rsvd |-> 0, fracr |-> 0]]
          /\ pll_isr0 = [i \in PllIds |-> (i = core_id) /\ l]
    /\ writes = <<>>
    /\ last = NoCall
    /\ achieved = 0
    /\ by_driver = FALSE
    /\ FracIdle
    /\ ExtIdle

\* sam9x60_clk_register_frac_pll, PLL already locked: read MUL and FRACR back.
RegisterFracLocked ==
    /\ pc = "unregistered"
    /\ sam9x60_pll_ready(core_id)
    /\ pll_updt' = [pll_updt EXCEPT !.id = core_id]
    /\ frac_mul' = pll_ctrl1[core_id].mul
    /\ frac_frac' = pll_ctrl1[core_id].fracr
    /\ writes' = <<"UPDT">>
    /\ last' = Call("register_frac", 0, 0, TRUE, FracPre)
    /\ pc' = "idle"
    /\ UNCHANGED <<core_id, parent_rate, div_div, div_chg, div_layout, master, pll_ctrl0,
                   pll_ctrl1, pll_isr0, mcr_v2, achieved, by_driver>>
    /\ UNCHANGED extState

\* sam9x60_clk_register_frac_pll, PLL not locked: compute the minimum rate;
\* a failure returns NULL and pmc_setup_sama7g5 panics.
RegisterFracUnlocked ==
    /\ pc = "unregistered"
    /\ ~sam9x60_pll_ready(core_id)
    /\ LET c == sam9x60_frac_pll_compute_mul_frac(frac_mul, frac_frac,
                                                  core_output_min, parent_rate)
       IN  IF parent_rate = 0 \/ c.ret <= 0
           THEN /\ pc' = "panic"
                /\ last' = Call("register_frac", core_output_min, -1, TRUE,
                                FracPre)
                /\ UNCHANGED <<frac_mul, frac_frac, achieved, by_driver>>
           ELSE /\ pc' = "idle"
                /\ frac_mul' = c.mul
                /\ frac_frac' = c.frac
                /\ achieved' = c.ret
                /\ by_driver' = TRUE
                /\ last' = Call("register_frac", core_output_min, 0, TRUE,
                                FracPre)
    /\ writes' = <<>>
    /\ UNCHANGED <<core_id, parent_rate, div_div, div_chg, div_layout, master, pll_updt,
                   pll_ctrl0, pll_ctrl1, pll_isr0, mcr_v2>>
    /\ UNCHANGED extState

\* sam9x60_frac_pll_set_rate_chg up to its polling loop.
FracSetRateChg(rate) ==
    /\ pc = "idle"
    /\ LET c == sam9x60_frac_pll_compute_mul_frac(frac_mul, frac_frac,
                                                  rate, parent_rate)
       IN  IF c.ret <= 0
           THEN /\ last' = Call("frac_set_rate", rate, -1, TRUE,
                                FracPre)
                /\ writes' = <<>>
                /\ UNCHANGED <<pc, frac_mul, frac_frac, achieved, pll_updt,
                               pll_ctrl0, pll_ctrl1, pll_isr0>>
           ELSE /\ frac_mul' = c.mul
                /\ frac_frac' = c.frac
                /\ achieved' = c.ret
                /\ pll_updt' = [id |-> core_id, update |-> TRUE]
                /\ pll_ctrl1' = [pll_ctrl1 EXCEPT
                                    ![core_id] = Ctrl1Word(c.mul, c.frac)]
                /\ pll_ctrl0' = [pll_ctrl0 EXCEPT ![core_id].enpll = TRUE,
                                                  ![core_id].enlock = TRUE]
                /\ \E l \in BOOLEAN :
                      pll_isr0' = [pll_isr0 EXCEPT ![core_id] = l]
                /\ writes' = <<"UPDT", "CTRL1", "UPDATE", "CTRL0", "UPDATE">>
                /\ last' = Call("frac_set_rate", rate, 0, FALSE,
                                FracPre)
                /\ pc' = "poll"
    /\ UNCHANGED <<core_id, parent_rate, div_div, div_chg, div_layout, master, mcr_v2,
                   by_driver>>
    /\ UNCHANGED extState

\* cpu_pll_characteristics and pll_characteristics leave upll unset.
upll == FALSE

\* sam9x60_frac_pll_set: the PLL is locked and already holds mul and frac.
FracPllAlreadySetNoReady(id, mul, frac) ==
    /\ pll_ctrl1[id].mul = mul
    /\ pll_ctrl1[id].fracr = frac

FracPllAlreadySet(id, mul, frac) ==
    /\ sam9x60_pll_ready(id)
    /\ pll_ctrl1[id].mul = mul
    /\ pll_ctrl1[id].fracr = frac

\* The registers sam9x60_frac_pll_set writes, in order; with upll the
\* bandgap and regulator bits of ACR are set after CTRL1.
FracPllSetWrites ==
    <<"UPDT", "ACR", "CTRL1">>
    \o (IF upll THEN <<"ACR", "ACR">> ELSE <<>>)
    \o <<"UPDATE", "CTRL0", "UPDATE">>

\* sam9x60_frac_pll_prepare -> sam9x60_frac_pll_set up to its polling loop.
FracPllPrepare ==
    /\ pc = "idle"
    /\ IF FracPllAlreadySet(core_id, frac_mul, frac_frac)
       THEN /\ pll_updt' = [pll_updt EXCEPT !.id = core_id]
            /\ writes' = <<"UPDT">>
            /\ last' = Call("frac_enable", 0, 0, TRUE, FracPre)
            /\ UNCHANGED <<pc, pll_ctrl0, pll_ctrl1, pll_isr0>>
       ELSE /\ pll_updt' = [id |-> core_id, update |-> TRUE]
            /\ pll_ctrl1' = [pll_ctrl1 EXCEPT
                                ![core_id] = Ctrl1Word(frac_mul, frac_frac)]
            /\ pll_ctrl0' = [pll_ctrl0 EXCEPT ![core_id].enpll = TRUE,
                                              ![core_id].enlock = TRUE]
            /\ \E l \in BOOLEAN :
                  pll_isr0' = [pll_isr0 EXCEPT ![core_id] = l]
            /\ writes' = FracPllSetWrites
            /\ last' = Call("frac_enable", 0, 0, FALSE, FracPre)
            /\ pc' = "poll"
    /\ UNCHANGED <<core_id, parent_rate, frac_mul, frac_frac, div_div, div_chg,
                   div_layout, master, mcr_v2, achieved, by_driver>>
    /\ UNCHANGED extState

\* io_clrsetbits32(CTRL0, AT91_PMC_PLL_CTRL0_ENPLL, 0)
FracDisableCtrl0Both(w) == [w EXCEPT !.enpll = FALSE, !.enlock = FALSE]

FracDisableCtrl0(w) == [w EXCEPT !.enpll = FALSE]

\* sam9x60_frac_pll_unprepare; the PLL loses its lock.
FracPllUnprepare ==
    /\ pc = "idle"
    /\ pll_updt' = [id |-> core_id, update |-> TRUE]
    /\ pll_ctrl0' = [pll_ctrl0 EXCEPT ![core_id] = FracDisableCtrl0(@)]
    /\ pll_isr0' = [pll_isr0 EXCEPT ![core_id] = FALSE]
    /\ writes' = <<"UPDT", "CTRL0">>
                     \o (IF upll THEN <<"ACR">> ELSE <<>>) \o <<"UPDATE">>
    /\ last' = Call("frac_disable", 0, 0, TRUE, FracPre)
    /\ UNCHANGED <<pc, core_id, parent_rate, frac_mul, frac_frac, div_div,
                   div_chg, div_layout, master, pll_ctrl1, mcr_v2, achieved, by_driver>>
    /\ UNCHANGED extState

\* while (!sam9x60_pll_ready(regmap, core->id)) ; return 0;
PollReady ==
    /\ pc = "poll"
    /\ sam9x60_pll_ready(core_id)
    /\ pc' = "idle"
    /\ last' = [last EXCEPT !.done = TRUE]
    /\ UNCHANGED <<core_id, parent_rate, frac_mul, frac_frac, div_div, div_chg,
                   div_layout, master, pll_updt, pll_ctrl0, pll_ctrl1, pll_isr0, mcr_v2,
                   writes, achieved, by_driver>>
    /\ UNCHANGED extState

\* The hardware raises the lock bit of an enabled PLL.
HwPllLock ==
    /\ ~pll_isr0[core_id]
    /\ \/ pll_ctrl0[core_id].enpll
       \/ pll_ctrl0[core_id].endivpmc
       \/ pll_ctrl0[core_id].endivio
    /\ pll_isr0' = [pll_isr0 EXCEPT ![core_id] = TRUE]
    /\ UNCHANGED <<pc, core_id, parent_rate, frac_mul, frac_frac, div_div,
                   div_chg, div_layout, master, pll_updt, pll_ctrl0, pll_ctrl1, mcr_v2,
                   writes, last, achieved, by_driver>>
    /\ UNCHANGED extState

NextFrac ==
    \/ RegisterFracLocked
    \/ RegisterFracUnlocked
    \/ \E rate \in FracTargets(parent_rate) : FracSetRateChg(rate)
    \/ FracPllPrepare
    \/ FracPllUnprepare
    \/ PollReady
    \/ HwPllLock

SpecFrac == InitFrac /\ [][NextFrac]_vars

(***************************************************************************)
(* Divider PLL node.                                                       *)
(***************************************************************************)
PLL_ID_CPU == 0
PLL_ID_AUDIO == 5
PMC_PLL_CTRL0_DIV_MSK == 15

DivSpread == 2

fracState == <<frac_mul, frac_frac, achieved, by_driver>>
masterState == <<master, mcr_v2>>
config == <<core_id, parent_rate, div_chg, div_layout>>

\* Rates of the fractional PLL feeding the divider (inside core_outputs).
DivParentRates == {core_output_min, 1000000000, core_output_max}

\* Requested integer ratios: the smallest ones, those around the end of the
\* 8-bit field, and larger ones.
DivRatios ==
    (1 .. (1 + DivSpread))
    \cup {U8 + d : d \in (0 - DivSpread) .. DivSpread}
    \cup {300, 2 * U8}

\* Requested rates: prate / k for the ratios above, and one above twice the
\* parent rate (rounded ratio 0) where that stays below 2^31.
DivTargets(prate) ==
    {prate \div k : k \in DivRatios}
    \cup (IF prate <= 1000000000 THEN {(2 * prate) + 1} ELSE {})

BootDivs == {0, 3, 19}

\* The divider and enable fields of CTRL0 that a clk_pll_layout selects
\* (pll_layout_divpmc: bits 7..0 and 29, pll_layout_divio: bits 19..12 and 30).
Ctrl0Div(w, layout) == IF layout = "divio" THEN w.divio ELSE w.divpmc

Ctrl0Endiv(w, layout) == IF layout = "divio" THEN w.endivio ELSE w.endivpmc

\* io_clrsetbits32(CTRL0, div_mask | ena_msk, (div << div_shift) | ena_val)
Ctrl0SetDiv(w, layout, div, enable) ==
    IF layout = "divio"
    THEN [w EXCEPT !.divio = div % U8,
                   !.endivio = IF enable THEN TRUE ELSE @]
    ELSE [w EXCEPT !.divpmc = div % U8,
                   !.endivpmc = IF enable THEN TRUE ELSE @]

Ctrl0ClearEndiv(w, layout) ==
    IF layout = "divio" THEN [w EXCEPT !.endivio = FALSE]
    ELSE [w EXCEPT !.endivpmc = FALSE]

\* div->div = DIV_ROUND_CLOSEST(parent_rate, rate) - 1, stored in a u8.
DivOfRate(prate, rate) == (DIV_ROUND_CLOSEST(prate, rate) - 1) % U8

\* sam9x60_div_pll_recalc_rate
sam9x60_div_pll_recalc_rate(div, prate) ==
    DIV_ROUND_CLOSEST(prate, div + 1)

DivIdle ==
    /\ frac_mul = 0
    /\ frac_frac = 0
    /\ achieved = 0
    /\ by_driver = FALSE
    /\ pll_ctrl1 = [i \in PllIds |-> [mul |-> 0, rsvd |-> 0, fracr |-> 0]]
    /\ master = [parent |-> 0, div |-> 0]
    /\ mcr_v2 = [i \in MasterIds |-> McrReset]

\* sama7g5_plls: only cpupll_divpmcck lacks CLK_SET_RATE_GATE (ops_chg), and
\* only the audio PLL has a DIVIO divider besides its DIVPMC one.
InitDiv ==
    /\ pc = "unregistered"
    /\ core_id \in PllIds
    /\ parent_rate \in DivParentRates
    /\ div_div = 0
    /\ div_chg = (core_id = PLL_ID_CPU)
    /\ div_layout \in (IF core_id = PLL_ID_AUDIO THEN {"divpmc", "divio"}
                       ELSE {"divpmc"})
    /\ pll_updt = [id |-> 0, update |-> FALSE]
    /\ \E d \in BootDivs, e \in BOOLEAN :
          /\ pll_ctrl0 = [i \in PllIds |->
                            IF i = core_id
                            THEN Ctrl0SetDiv(Ctrl0Reset, div_layout, d, e)
                            ELSE Ctrl0Reset]
          /\ pll_isr0 = [i \in PllIds |-> (i = core_id) /\ e]
    /\ writes = <<>>
    /\ last = NoCall
    /\ DivIdle
    /\ ExtIdle

\* sam9x60_clk_register_div_pll: select the PLL, read the divider back.
RegisterDivPll ==
    /\ pc = "unregistered"
    /\ pll_updt' = [pll_updt EXCEPT !.id = core_id]
    /\ div_div' = pll_ctrl0[core_id].divpmc % (PMC_PLL_CTRL0_DIV_MSK + 1)
    /\ writes' = <<"UPDT">>
    /\ last' = Call("register_div", 0, 0, TRUE, <<div_div, 0, 0, HwPre>>)
    /\ pc' = "idle"
    /\ UNCHANGED <<config, fracState, masterState, pll_ctrl0, pll_ctrl1,
                   pll_isr0>>
    /\ UNCHANGED extState

\* The rate of the previous call when that was a set_rate, else 0.
PrevRate == IF last.op = "div_set_rate" THEN last.arg ELSE 0

\* sam9x60_div_pll_set_rate (sam9x60_div_pll_ops)
DivSetRate(rate) ==
    /\ pc = "idle"
    /\ ~div_chg
    /\ rate # 0
    /\ div_div' = DivOfRate(parent_rate, rate)
    /\ writes' = <<>>
    /\ last' = Call("div_set_rate", rate, 0, TRUE, <<div_div, PrevRate, 0, HwPre>>)
    /\ UNCHANGED <<pc, config, fracState, masterState, pll_updt, pll_ctrl0,
                   pll_ctrl1, pll_isr0>>
    /\ UNCHANGED extState

\* sam9x60_div_pll_set_rate_chg (sam9x60_div_pll_ops_chg), with
\* sam9x60_div_pll_set_div up to its polling loop.
DivSetRateChg(rate) ==
    /\ pc = "idle"
    /\ div_chg
    /\ rate # 0
    /\ div_div' = DivOfRate(parent_rate, rate)
    /\ IF Ctrl0Div(pll_ctrl0[core_id], div_layout) = div_div'
       THEN /\ pll_updt' = [pll_updt EXCEPT !.id = core_id]
            /\ writes' = <<"UPDT">>
            /\ last' = Call("div_set_rate", rate, 0, TRUE,
                            <<div_div, PrevRate, 0, HwPre>>)
            /\ UNCHANGED <<pc, pll_ctrl0, pll_isr0>>
       ELSE /\ pll_updt' = [id |-> core_id, update |-> TRUE]
            /\ pll_ctrl0' = [pll_ctrl0 EXCEPT ![core_id] =
                                Ctrl0SetDiv(@, div_layout, div_div', FALSE)]
            /\ \E l \in BOOLEAN :
                  pll_isr0' = [pll_isr0 EXCEPT ![core_id] = l]
            /\ writes' = <<"UPDT", "CTRL0", "UPDATE">>
            /\ last' = Call("div_set_rate", rate, 0, FALSE,
                            <<div_div, PrevRate, 0, HwPre>>)
            /\ pc' = "poll"
    /\ UNCHANGED <<config, fracState, masterState, pll_ctrl1>>
    /\ UNCHANGED extState

DivPllAlreadySetAnyEnable(w, layout, div) == Ctrl0Div(w, layout) = div

\* sam9x60_div_pll_set: !!(val & endiv_mask) && cdiv == div->div
DivPllAlreadySet(w, layout, div) ==
    /\ Ctrl0Endiv(w, layout)
    /\ Ctrl0Div(w, layout) = div

\* sam9x60_div_pll_prepare -> sam9x60_div_pll_set, with
\* sam9x60_div_pll_set_div up to its polling loop.
DivPllPrepare ==
    /\ pc = "idle"
    /\ IF DivPllAlreadySet(pll_ctrl0[core_id], div_layout, div_div)
       THEN /\ pll_updt' = [pll_updt EXCEPT !.id = core_id]
            /\ writes' = <<"UPDT">>
            /\ last' = Call("div_enable", 0, 0, TRUE, <<div_div, 0, 0, HwPre>>)
            /\ UNCHANGED <<pc, pll_ctrl0, pll_isr0>>
       ELSE /\ pll_updt' = [id |-> core_id, update |-> TRUE]
            /\ pll_ctrl0' = [pll_ctrl0 EXCEPT ![core_id] =
                                Ctrl0SetDiv(@, div_layout, div_div, TRUE)]
            /\ \E l \in BOOLEAN :
                  pll_isr0' = [pll_isr0 EXCEPT ![core_id] = l]
            /\ writes' = <<"UPDT", "CTRL0", "UPDATE">>
            /\ last' = Call("div_enable", 0, 0, FALSE, <<div_div, 0, 0, HwPre>>)
            /\ pc' = "poll"
    /\ UNCHANGED <<config, div_div, fracState, masterState, pll_ctrl1>>
    /\ UNCHANGED extState

\* sam9x60_div_pll_unprepare
DivPllUnprepare ==
    /\ pc = "idle"
    /\ pll_updt' = [id |-> core_id, update |-> TRUE]
    /\ pll_ctrl0' = [pll_ctrl0 EXCEPT ![core_id] =
                        Ctrl0ClearEndiv(@, div_layout)]
    /\ pll_isr0' = [pll_isr0 EXCEPT ![core_id] = FALSE]
    /\ writes' = <<"UPDT", "CTRL0", "UPDATE">>
    /\ last' = Call("div_disable", 0, 0, TRUE, <<div_div, 0, 0, HwPre>>)
    /\ UNCHANGED <<pc, config, div_div, fracState, masterState, pll_ctrl1>>
    /\ UNCHANGED extState

NextDiv ==
    \/ RegisterDivPll
    \/ \E rate \in DivTargets(parent_rate) : DivSetRate(rate)
    \/ \E rate \in DivTargets(parent_rate) : DivSetRateChg(rate)
    \/ DivPllPrepare
    \/ DivPllUnprepare
    \/ PollReady
    \/ HwPllLock

SpecDiv == InitDiv /\ [][NextDiv]_vars

(***************************************************************************)
(* Master clock (MCK1..MCK4) node.                                         *)
(***************************************************************************)
MASTER_PRES_MAX == 7

MaxRatio == 4
ExtraIndex == 1

divState == <<div_div, pll_updt, pll_ctrl0, pll_ctrl1, pll_isr0>>

\* sama7g5_mckx[].ep_mux_table by master id.
ep_mux_table(id) == IF id = 3 THEN <<5, 6, 7>> ELSE IF id = 2 THEN <<6>> ELSE <<5>>

\* pmc_setup_sama7g5: mux_table[0..3] = 0..3, then the extra parents' codes.
mux_table(id) == <<0, 1, 2, 3>> \o ep_mux_table(id)

num_parents(id) == 4 + Len(ep_mux_table(id))

\* a & b for non-negative a, b
RECURSIVE BitAnd(_, _)
BitAnd(a, b) ==
    IF a = 0 \/ b = 0 THEN 0
    ELSE ((a % 2) * (b % 2)) + (2 * BitAnd(a \div 2, b \div 2))

\* ffs(x): position, from 1, of the least significant set bit; 0 for 0.
RECURSIVE ffs(_)
ffs(x) == IF x = 0 THEN 0 ELSE IF x % 2 = 1 THEN 1 ELSE 1 + ffs(x \div 2)

\* if ((div > (1 << (MASTER_PRES_MAX - 1))) || (div & (div - 1)))
MasterDivRejectedShift(div) ==
    div > Pow2(MASTER_PRES_MAX) \/ (div # 0 /\ BitAnd(div, div - 1) # 0)

MasterDivRejected(div) ==
    div > Pow2(MASTER_PRES_MAX - 1) \/ (div # 0 /\ BitAnd(div, div - 1) # 0)

\* if (div == 3) div = MASTER_PRES_MAX; else if (div) div = ffs(div) - 1;
MasterPresCodeOffByOne(div) ==
    IF div = 3 THEN MASTER_PRES_MAX ELSE IF div # 0 THEN ffs(div) ELSE div

MasterPresCode(div) ==
    IF div = 3 THEN MASTER_PRES_MAX ELSE IF div # 0 THEN ffs(div) - 1 ELSE div

\* clk_sama7g5_master_set_rate: [ret, div], div the stored prescaler code.
clk_sama7g5_master_set_rate(stored, rate, prate) ==
    LET div == DIV_ROUND_CLOSEST(prate, rate)
    IN  IF MasterDivRejected(div)
        THEN [ret |-> -1, div |-> stored]
        ELSE [ret |-> 0, div |-> MasterPresCode(div) % U8]

\* clk_sama7g5_master_get_rate
clk_sama7g5_master_get_rate(div, prate) ==
    IF div = 7 THEN prate \div 3 ELSE prate \div Pow2(div)

\* clk_sama7g5_master_get_parent: the index, or (uint8_t)-1.
clk_sama7g5_master_get_parent(id, parent) ==
    IF \E i \in 1 .. num_parents(id) : mux_table(id)[i] = parent
    THEN (CHOOSE i \in 1 .. num_parents(id) :
              /\ mux_table(id)[i] = parent
              /\ \A j \in 1 .. (i - 1) : mux_table(id)[j] # parent) - 1
    ELSE U8 - 1

\* Parent rates handed to set_rate: md_slck, mainck and PLL outputs.
MasterParentRates == {32768, 12000000, 800000000}

\* Requested rates: prate / k for small ratios and for the ratios around the
\* largest prescaler, and one above twice the parent rate.
MasterRatios ==
    (1 .. MaxRatio) \cup {8, 16, 32, 64, 65, 128}

MasterTargets(prate) ==
    {prate \div k : k \in MasterRatios} \cup {(2 * prate) + 1}

\* CSS and DIV fields a bootloader may have left in MCR_V2.
BootMcr ==
    {[css |-> c, div |-> d, en |-> e] : c \in {0, 5}, d \in {0, 2}, e \in BOOLEAN}

MasterIdle ==
    /\ frac_mul = 0
    /\ frac_frac = 0
    /\ achieved = 0
    /\ by_driver = FALSE
    /\ div_div = 0
    /\ div_chg = FALSE
    /\ div_layout = "divpmc"
    /\ parent_rate = 0
    /\ pll_updt = [id |-> 0, update |-> FALSE]
    /\ pll_ctrl0 = [i \in PllIds |-> Ctrl0Reset]
    /\ pll_ctrl1 = [i \in PllIds |-> [mul |-> 0, rsvd |-> 0, fracr |-> 0]]
    /\ pll_isr0 = [i \in PllIds |-> FALSE]

InitMaster ==
    /\ pc = "unregistered"
    /\ core_id \in MasterIds
    /\ master = [parent |-> 0, div |-> 0]
    /\ \E w \in BootMcr :
          mcr_v2 = [i \in MasterIds |->
                      IF i = core_id THEN w ELSE McrReset]
    /\ writes = <<>>
    /\ last = NoCall
    /\ MasterIdle
    /\ ExtIdle

\* at91_clk_sama7g5_register_master: select the id, read CSS and DIV back.
RegisterMaster ==
    /\ pc = "unregistered"
    /\ master' = [parent |-> mcr_v2[core_id].css, div |-> mcr_v2[core_id].div]
    /\ writes' = <<"MCR_V2_ID">>
    /\ last' = Call("register_master", 0, 0, TRUE, <<master.parent, master.div, 0, mcr_v2>>)
    /\ pc' = "idle"
    /\ UNCHANGED <<config, fracState, divState, mcr_v2>>
    /\ UNCHANGED extState

\* clk_sama7g5_master_set_parent: [ret, parent], parent the stored code.
clk_sama7g5_master_set_parent_clamped(id, parent, index) ==
    IF index >= num_parents(id)
    THEN [ret |-> 0, parent |-> mux_table(id)[num_parents(id)]]
    ELSE [ret |-> 0, parent |-> mux_table(id)[index + 1]]

clk_sama7g5_master_set_parent_index(id, parent, index) ==
    IF index >= num_parents(id)
    THEN [ret |-> -1, parent |-> parent]
    ELSE [ret |-> 0, parent |-> index]

clk_sama7g5_master_set_parent(id, parent, index) ==
    IF index >= num_parents(id)
    THEN [ret |-> -1, parent |-> parent]
    ELSE [ret |-> 0, parent |-> mux_table(id)[index + 1]]

MasterSetParent(index) ==
    /\ pc = "idle"
    /\ LET r == clk_sama7g5_master_set_parent(core_id, master.parent, index)
       IN  /\ master' = [master EXCEPT !.parent = r.parent]
           /\ last' = Call("master_set_parent", index, r.ret, TRUE,
                           <<master.parent, master.div, 0, mcr_v2>>)
    /\ writes' = <<>>
    /\ UNCHANGED <<pc, config, fracState, divState, mcr_v2>>
    /\ UNCHANGED extState

\* clk_sama7g5_master_set_rate
MasterSetRate(rate, prate) ==
    /\ pc = "idle"
    /\ rate # 0
    /\ LET r == clk_sama7g5_master_set_rate(master.div, rate, prate)
       IN  /\ master' = [master EXCEPT !.div = r.div]
           /\ last' = Call("master_set_rate", rate, r.ret, TRUE,
                           <<master.parent, master.div, prate, mcr_v2>>)
    /\ writes' = <<>>
    /\ UNCHANGED <<pc, config, fracState, divState, mcr_v2>>
    /\ UNCHANGED extState

NextMaster ==
    \/ RegisterMaster
    \/ \E index \in 0 .. (num_parents(core_id) + ExtraIndex) :
          MasterSetParent(index)
    \/ \E prate \in MasterParentRates :
          \E rate \in MasterTargets(prate) : MasterSetRate(rate, prate)

SpecMaster == InitMaster /\ [][NextMaster]_vars

(***************************************************************************)
(* clk_sama7g5_master_set, reached through clk_sama7g5_master_enable.      *)
(* sama7g5_master_ops names neither: the functions are driven directly     *)
(* here, on a registered node.                                             *)
(***************************************************************************)
\* while ((cparent != master->parent) && ...): the parent is being changed.
MasterParentChangingAlways(cparent, parent) == TRUE

MasterParentChanging(cparent, parent) == cparent # parent

\* clk_sama7g5_master_enable -> clk_sama7g5_master_set(master, 1) up to its
\* polling loop: select the id, read MCR_V2, update EN, CSS and DIV with the
\* command bit.  The hardware may drop MCKXRDY while it switches parents.
MasterEnable ==
    /\ pc = "idle"
    /\ LET cparent == mcr_v2[core_id].css
       IN  /\ mcr_v2' = [mcr_v2 EXCEPT ![core_id] =
                            [css |-> master.parent, div |-> master.div,
                             en |-> TRUE]]
           /\ writes' = <<"MCR_V2_ID", "MCR_V2">>
           /\ IF MasterParentChanging(cparent, master.parent)
              THEN /\ pc' = "mpoll"
                   /\ \E r \in BOOLEAN :
                         mck_sr' = [rdy |-> IF cparent # master.parent
                                            THEN r ELSE mck_sr.rdy,
                                    sr_read |-> FALSE]
                   /\ last' = Call("master_enable", 0, 0, FALSE,
                                   <<master.parent, master.div, 0, mcr_v2>>)
              ELSE /\ pc' = "idle"
                   /\ mck_sr' = [mck_sr EXCEPT !.sr_read = FALSE]
                   /\ last' = Call("master_enable", 0, 0, TRUE,
                                   <<master.parent, master.div, 0, mcr_v2>>)
    /\ UNCHANGED <<config, fracState, divState, master, race, setup, matrix, tcb,
                   periph>>

\* One evaluation of !clk_master_ready(master) in the loop of
\* clk_sama7g5_master_set: read PMC_SR, leave the loop when MCKXRDY is set.
MasterPoll ==
    /\ pc = "mpoll"
    /\ mck_sr' = [mck_sr EXCEPT !.sr_read = TRUE]
    /\ IF mck_sr.rdy
       THEN /\ pc' = "idle"
            /\ last' = [last EXCEPT !.done = TRUE]
       ELSE UNCHANGED <<pc, last>>
    /\ UNCHANGED <<config, fracState, divState, master, mcr_v2, writes,
                   race, setup, matrix, tcb,
                   periph>>

\* The hardware raises MCKXRDY once the master clock has settled.
HwMckReady ==
    /\ ~mck_sr.rdy
    /\ mck_sr' = [mck_sr EXCEPT !.rdy = TRUE]
    /\ UNCHANGED <<pc, config, fracState, divState, master, mcr_v2, writes,
                   last, race, setup, matrix, tcb,
                   periph>>

\* clk_sama7g5_master_disable: select the id, clear EN with the command bit.
MasterDisable ==
    /\ pc = "idle"
    /\ mcr_v2' = [mcr_v2 EXCEPT ![core_id].en = FALSE]
    /\ writes' = <<"MCR_V2_ID", "MCR_V2">>
    /\ last' = Call("master_disable", 0, 0, TRUE,
                    <<master.parent, master.div, 0, mcr_v2>>)
    /\ UNCHANGED <<pc, config, fracState, divState, master, extState>>

\* Parent rate and ratios of the rate requests made between commits.
MasterSetPrate == 12000000

MasterSetRatios == {1, 2, 4}

NextMasterSet ==
    \/ RegisterMaster
    \/ \E index \in 0 .. (num_parents(core_id) - 1) : MasterSetParent(index)
    \/ \E k \in MasterSetRatios :
          MasterSetRate(MasterSetPrate \div k, MasterSetPrate)
    \/ MasterEnable
    \/ MasterPoll
    \/ HwMckReady
    \/ MasterDisable

SpecMasterSet == InitMaster /\ [][NextMasterSet]_vars

(***************************************************************************)
(* pmc_setup_sama7g5: construction of the clock graph.  setup is           *)
(* [pc, step, nodes, heap, failed, locals]: step indexes SetupTable, nodes *)
(* are the registered clocks in registration order, heap the node          *)
(* structures allocated and not freed, failed the name of the clock whose  *)
(* registration returned NULL, locals the local variables md_slck,         *)
(* td_slck and main_clk, the slots parents[0..2] as the programmable       *)
(* clocks see them, and the slot parents[8].  A node is [n, e, parents,    *)
(* st, arr]: name, whether exported, parents, stored fields, and the use   *)
(* its registration made of the array parents[].                           *)
(***************************************************************************)
PARENT_SIZE == 8

\* The registrations pmc_setup_sama7g5 makes, in order.  k is the kind of
\* registration, id the PLL or master id, e whether the clock is stored in
\* sama7g5_pmc->chws[], p the expressions handed over as parents: "clk" a
\* clock pointer returned by an earlier registration, "prev" the variable
\* clk (the last registration), "local" a local variable, "chws" and "name"
\* a look-up among the exported clocks, "array" a slot of parents[] filled
\* before the programmable clocks, "oob" the slot parents[8].
SetupTable == <<
    [n |-> "md_slck", k |-> "dt", id |-> 0, e |-> FALSE,
     p |-> <<>>],
    [n |-> "main_xtal", k |-> "dt", id |-> 0, e |-> FALSE,
     p |-> <<>>],
    [n |-> "main_rc_osc", k |-> "osc", id |-> 0, e |-> FALSE,
     p |-> <<>>],
    [n |-> "main_osc", k |-> "osc", id |-> 0, e |-> FALSE,
     p |-> <<<<"clk", "main_xtal">>>>],
    [n |-> "mainck", k |-> "main", id |-> 0, e |-> TRUE,
     p |-> <<<<"clk", "main_rc_osc">>, <<"clk", "main_osc">>>>],
    [n |-> "cpupll_fracck", k |-> "frac", id |-> 0, e |-> FALSE,
     p |-> <<<<"chws", "mainck">>>>],
    [n |-> "cpupll_divpmcck", k |-> "div", id |-> 0, e |-> TRUE,
     p |-> <<<<"prev", "">>>>],
    [n |-> "syspll_fracck", k |-> "frac", id |-> 1, e |-> FALSE,
     p |-> <<<<"chws", "mainck">>>>],
    [n |-> "syspll_divpmcck", k |-> "div", id |-> 1, e |-> TRUE,
     p |-> <<<<"prev", "">>>>],
    [n |-> "ddrpll_fracck", k |-> "frac", id |-> 2, e |-> FALSE,
     p |-> <<<<"chws", "mainck">>>>],
    [n |-> "ddrpll_divpmcck", k |-> "div", id |-> 2, e |-> TRUE,
     p |-> <<<<"prev", "">>>>],
    [n |-> "imgpll_fracck", k |-> "frac", id |-> 3, e |-> FALSE,
     p |-> <<<<"chws", "mainck">>>>],
    [n |-> "imgpll_divpmcck", k |-> "div", id |-> 3, e |-> TRUE,
     p |-> <<<<"prev", "">>>>],
    [n |-> "baudpll_fracck", k |-> "frac", id |-> 4, e |-> FALSE,
     p |-> <<<<"chws", "mainck">>>>],
    [n |-> "baudpll_divpmcck", k |-> "div", id |-> 4, e |-> TRUE,
     p |-> <<<<"prev", "">>>>],
    [n |-> "audiopll_fracck", k |-> "frac", id |-> 5, e |-> FALSE,
     p |-> <<<<"chws", "mainck">>>>],
    [n |-> "audiopll_divpmcck", k |-> "div", id |-> 5, e |-> TRUE,
     p |-> <<<<"prev", "">>>>],
    [n |-> "audiopll_diviock", k |-> "div", id |-> 5, e |-> TRUE,
     p |-> <<<<"prev", "">>>>],
    [n |-> "ethpll_fracck", k |-> "frac", id |-> 6, e |-> FALSE,
     p |-> <<<<"chws", "mainck">>>>],
    [n |-> "ethpll_divpmcck", k |-> "div", id |-> 6, e |-> TRUE,
     p |-> <<<<"prev", "">>>>],
    [n |-> "fclk", k |-> "master_pres", id |-> 0, e |-> TRUE,
     p |-> <<<<"local", "md_slck">>, <<"local", "main_clk">>, <<"chws", "cpupll_divpmcck">>, <<"chws", "syspll_divpmcck">>>>],
    [n |-> "mck0", k |-> "master_div", id |-> 0, e |-> TRUE,
     p |-> <<<<"clk", "fclk">>>>],
    [n |-> "mck1", k |-> "master", id |-> 1, e |-> TRUE,
     p |-> <<<<"local", "md_slck">>, <<"local", "td_slck">>, <<"local", "main_clk">>, <<"clk", "mck0">>, <<"name", "syspll_divpmcck">>>>],
    [n |-> "mck2", k |-> "master", id |-> 2, e |-> FALSE,
     p |-> <<<<"local", "md_slck">>, <<"local", "td_slck">>, <<"local", "main_clk">>, <<"clk", "mck0">>, <<"name", "ddrpll_divpmcck">>>>],
    [n |-> "mck3", k |-> "master", id |-> 3, e |-> FALSE,
     p |-> <<<<"local", "md_slck">>, <<"local", "td_slck">>, <<"local", "main_clk">>, <<"clk", "mck0">>, <<"name", "syspll_divpmcck">>, <<"name", "ddrpll_divpmcck">>, <<"name", "imgpll_divpmcck">>>>],
    [n |-> "mck4", k |-> "master", id |-> 4, e |-> FALSE,
     p |-> <<<<"local", "md_slck">>, <<"local", "td_slck">>, <<"local", "main_clk">>, <<"clk", "mck0">>, <<"name", "syspll_divpmcck">>>>],
    [n |-> "prog0", k |-> "prog", id |-> 0, e |-> FALSE,
     p |-> <<<<"array", "md_slck">>, <<"array", "td_slck">>, <<"array", "main_clk">>, <<"chws", "syspll_divpmcck">>, <<"chws", "ddrpll_divpmcck">>, <<"chws", "imgpll_divpmcck">>, <<"chws", "baudpll_divpmcck">>, <<"chws", "audiopll_divpmcck">>, <<"oob", "ethpll_divpmcck">>>>],
    [n |-> "prog1", k |-> "prog", id |-> 1, e |-> FALSE,
     p |-> <<<<"array", "md_slck">>, <<"array", "td_slck">>, <<"array", "main_clk">>, <<"chws", "syspll_divpmcck">>, <<"chws", "ddrpll_divpmcck">>, <<"chws", "imgpll_divpmcck">>, <<"chws", "baudpll_divpmcck">>, <<"chws", "audiopll_divpmcck">>, <<"oob", "ethpll_divpmcck">>>>],
    [n |-> "prog2", k |-> "prog", id |-> 2, e |-> FALSE,
     p |-> <<<<"array", "md_slck">>, <<"array", "td_slck">>, <<"array", "main_clk">>, <<"chws", "syspll_divpmcck">>, <<"chws", "ddrpll_divpmcck">>, <<"chws", "imgpll_divpmcck">>, <<"chws", "baudpll_divpmcck">>, <<"chws", "audiopll_divpmcck">>, <<"oob", "ethpll_divpmcck">>>>],
    [n |-> "prog3", k |-> "prog", id |-> 3, e |-> FALSE,
     p |-> <<<<"array", "md_slck">>, <<"array", "td_slck">>, <<"array", "main_clk">>, <<"chws", "syspll_divpmcck">>, <<"chws", "ddrpll_divpmcck">>, <<"chws", "imgpll_divpmcck">>, <<"chws", "baudpll_divpmcck">>, <<"chws", "audiopll_divpmcck">>, <<"oob", "ethpll_divpmcck">>>>],
    [n |-> "prog4", k |-> "prog", id |-> 4, e |-> FALSE,
     p |-> <<<<"array", "md_slck">>, <<"array", "td_slck">>, <<"array", "main_clk">>, <<"chws", "syspll_divpmcck">>, <<"chws", "ddrpll_divpmcck">>, <<"chws", "imgpll_divpmcck">>, <<"chws", "baudpll_divpmcck">>, <<"chws", "audiopll_divpmcck">>, <<"oob", "ethpll_divpmcck">>>>],
    [n |-> "prog5", k |-> "prog", id |-> 5, e |-> FALSE,
     p |-> <<<<"array", "md_slck">>, <<"array", "td_slck">>, <<"array", "main_clk">>, <<"chws", "syspll_divpmcck">>, <<"chws", "ddrpll_divpmcck">>, <<"chws", "imgpll_divpmcck">>, <<"chws", "baudpll_divpmcck">>, <<"chws", "audiopll_divpmcck">>, <<"oob", "ethpll_divpmcck">>>>],
    [n |-> "prog6", k |-> "prog", id |-> 6, e |-> FALSE,
     p |-> <<<<"array", "md_slck">>, <<"array", "td_slck">>, <<"array", "main_clk">>, <<"chws", "syspll_divpmcck">>, <<"chws", "ddrpll_divpmcck">>, <<"chws", "imgpll_divpmcck">>, <<"chws", "baudpll_divpmcck">>, <<"chws", "audiopll_divpmcck">>, <<"oob", "ethpll_divpmcck">>>>],
    [n |-> "prog7", k |-> "prog", id |-> 7, e |-> FALSE,
     p |-> <<<<"array", "md_slck">>, <<"array", "td_slck">>, <<"array", "main_clk">>, <<"chws", "syspll_divpmcck">>, <<"chws", "ddrpll_divpmcck">>, <<"chws", "imgpll_divpmcck">>, <<"chws", "baudpll_divpmcck">>, <<"chws", "audiopll_divpmcck">>, <<"oob", "ethpll_divpmcck">>>>],
    [n |-> "pck0", k |-> "system", id |-> 0, e |-> FALSE,
     p |-> <<<<"clk", "prog0">>>>],
    [n |-> "pck1", k |-> "system", id |-> 0, e |-> FALSE,
     p |-> <<<<"clk", "prog1">>>>],
    [n |-> "pck2", k |-> "system", id |-> 0, e |-> FALSE,
     p |-> <<<<"clk", "prog2">>>>],
    [n |-> "pck3", k |-> "system", id |-> 0, e |-> FALSE,
     p |-> <<<<"clk", "prog3">>>>],
    [n |-> "pck4", k |-> "system", id |-> 0, e |-> FALSE,
     p |-> <<<<"clk", "prog4">>>>],
    [n |-> "pck5", k |-> "system", id |-> 0, e |-> FALSE,
     p |-> <<<<"clk", "prog5">>>>],
    [n |-> "pck6", k |-> "system", id |-> 0, e |-> FALSE,
     p |-> <<<<"clk", "prog6">>>>],
    [n |-> "pck7", k |-> "system", id |-> 0, e |-> FALSE,
     p |-> <<<<"clk", "prog7">>>>],
    [n |-> "pioA_clk", k |-> "periph", id |-> 0, e |-> FALSE,
     p |-> <<<<"name", "mck0">>>>],
    [n |-> "securam_clk", k |-> "periph", id |-> 0, e |-> FALSE,
     p |-> <<<<"name", "mck0">>>>],
    [n |-> "sfr_clk", k |-> "periph", id |-> 0, e |-> FALSE,
     p |-> <<<<"name", "mck1">>>>],
    [n |-> "hsmc_clk", k |-> "periph", id |-> 0, e |-> FALSE,
     p |-> <<<<"name", "mck1">>>>],
    [n |-> "xdmac0_clk", k |-> "periph", id |-> 0, e |-> FALSE,
     p |-> <<<<"name", "mck1">>>>],
    [n |-> "xdmac1_clk", k |-> "periph", id |-> 0, e |-> FALSE,
     p |-> <<<<"name", "mck1">>>>],
    [n |-> "xdmac2_clk", k |-> "periph", id |-> 0, e |-> FALSE,
     p |-> <<<<"name", "mck1">>>>],
    [n |-> "acc_clk", k |-> "periph", id |-> 0, e |-> FALSE,
     p |-> <<<<"name", "mck1">>>>],
    [n |-> "aes_clk", k |-> "periph", id |-> 0, e |-> FALSE,
     p |-> <<<<"name", "mck1">>>>],
    [n |-> "tzaesbasc_clk", k |-> "periph", id |-> 0, e |-> FALSE,
     p |-> <<<<"name", "mck1">>>>],
    [n |-> "asrc_clk", k |-> "periph", id |-> 0, e |-> FALSE,
     p |-> <<<<"name", "mck1">>>>],
    [n |-> "cpkcc_clk", k |-> "periph", id |-> 0, e |-> FALSE,
     p |-> <<<<"name", "mck0">>>>],
    [n |-> "eic_clk", k |-> "periph", id |-> 0, e |-> FALSE,
     p |-> <<<<"name", "mck1">>>>],
    [n |-> "flex0_clk", k |-> "periph", id |-> 0, e |-> FALSE,
     p |-> <<<<"name", "mck1">>>>],
    [n |-> "flex1_clk", k |-> "periph", id |-> 0, e |-> FALSE,
     p |-> <<<<"name", "mck1">>>>],
    [n |-> "flex2_clk", k |-> "periph", id |-> 0, e |-> FALSE,
     p |-> <<<<"name", "mck1">>>>],
    [n |-> "flex3_clk", k |-> "periph", id |-> 0, e |-> FALSE,
     p |-> <<<<"name", "mck1">>>>],
    [n |-> "flex4_clk", k |-> "periph", id |-> 0, e |-> FALSE,
     p |-> <<<<"name", "mck1">>>>],
    [n |-> "flex5_clk", k |-> "periph", id |-> 0, e |-> FALSE,
     p |-> <<<<"name", "mck1">>>>],
    [n |-> "flex6_clk", k |-> "periph", id |-> 0, e |-> FALSE,
     p |-> <<<<"name", "mck1">>>>],
    [n |-> "flex7_clk", k |-> "periph", id |-> 0, e |-> FALSE,
     p |-> <<<<"name", "mck1">>>>],
    [n |-> "flex8_clk", k |-> "periph", id |-> 0, e |-> FALSE,
     p |-> <<<<"name", "mck1">>>>],
    [n |-> "flex9_clk", k |-> "periph", id |-> 0, e |-> FALSE,
     p |-> <<<<"name", "mck1">>>>],
    [n |-> "flex10_clk", k |-> "periph", id |-> 0, e |-> FALSE,
     p |-> <<<<"name", "mck1">>>>],
    [n |-> "flex11_clk", k |-> "periph", id |-> 0, e |-> FALSE,
     p |-> <<<<"name", "mck1">>>>],
    [n |-> "gmac0_clk", k |-> "periph", id |-> 0, e |-> FALSE,
     p |-> <<<<"name", "mck1">>>>],
    [n |-> "gmac1_clk", k |-> "periph", id |-> 0, e |-> FALSE,
     p |-> <<<<"name", "mck1">>>>],
    [n |-> "icm_clk", k |-> "periph", id |-> 0, e |-> FALSE,
     p |-> <<<<"name", "mck1">>>>],
    [n |-> "i2smcc0_clk", k |-> "periph", id |-> 0, e |-> FALSE,
     p |-> <<<<"name", "mck1">>>>],
    [n |-> "i2smcc1_clk", k |-> "periph", id |-> 0, e |-> FALSE,
     p |-> <<<<"name", "mck1">>>>],
    [n |-> "matrix_clk", k |-> "periph", id |-> 0, e |-> FALSE,
     p |-> <<<<"name", "mck1">>>>],
    [n |-> "mcan0_clk", k |-> "periph", id |-> 0, e |-> FALSE,
     p |-> <<<<"name", "mck1">>>>],
    [n |-> "mcan1_clk", k |-> "periph", id |-> 0, e |-> FALSE,
     p |-> <<<<"name", "mck1">>>>],
    [n |-> "mcan2_clk", k |-> "periph", id |-> 0, e |-> FALSE,
     p |-> <<<<"name", "mck1">>>>],
    [n |-> "mcan3_clk", k |-> "periph", id |-> 0, e |-> FALSE,
     p |-> <<<<"name", "mck1">>>>],
    [n |-> "mcan4_clk", k |-> "periph", id |-> 0, e |-> FALSE,
     p |-> <<<<"name", "mck1">>>>],
    [n |-> "mcan5_clk", k |-> "periph", id |-> 0, e |-> FALSE,
     p |-> <<<<"name", "mck1">>>>],
    [n |-> "pdmc0_clk", k |-> "periph", id |-> 0, e |-> FALSE,
     p |-> <<<<"name", "mck1">>>>],
    [n |-> "pdmc1_clk", k |-> "periph", id |-> 0, e |-> FALSE,
     p |-> <<<<"name", "mck1">>>>],
    [n |-> "pit64b0_clk", k |-> "periph", id |-> 0, e |-> FALSE,
     p |-> <<<<"name", "mck1">>>>],
    [n |-> "pit64b1_clk", k |-> "periph", id |-> 0, e |-> FALSE,
     p |-> <<<<"name", "mck1">>>>],
    [n |-> "pit64b2_clk", k |-> "periph", id |-> 0, e |-> FALSE,
     p |-> <<<<"name", "mck1">>>>],
    [n |-> "pit64b3_clk", k |-> "periph", id |-> 0, e |-> FALSE,
     p |-> <<<<"name", "mck1">>>>],
    [n |-> "pit64b4_clk", k |-> "periph", id |-> 0, e |-> FALSE,
     p |-> <<<<"name", "mck1">>>>],
    [n |-> "pit64b5_clk", k |-> "periph", id |-> 0, e |-> FALSE,
     p |-> <<<<"name", "mck1">>>>],
    [n |-> "pwm_clk", k |-> "periph", id |-> 0, e |-> FALSE,
     p |-> <<<<"name", "mck1">>>>],
    [n |-> "qspi0_clk", k |-> "periph", id |-> 0, e |-> FALSE,
     p |-> <<<<"name", "mck1">>>>],
    [n |-> "qspi1_clk", k |-> "periph", id |-> 0, e |-> FALSE,
     p |-> <<<<"name", "mck1">>>>],
    [n |-> "sdmmc0_clk", k |-> "periph", id |-> 0, e |-> FALSE,
     p |-> <<<<"name", "mck1">>>>],
    [n |-> "sdmmc1_clk", k |-> "periph", id |-> 0, e |-> FALSE,
     p |-> <<<<"name", "mck1">>>>],
    [n |-> "sdmmc2_clk", k |-> "periph", id |-> 0, e |-> FALSE,
     p |-> <<<<"name", "mck1">>>>],
    [n |-> "sha_clk", k |-> "periph", id |-> 0, e |-> FALSE,
     p |-> <<<<"name", "mck1">>>>],
    [n |-> "spdifrx_clk", k |-> "periph", id |-> 0, e |-> FALSE,
     p |-> <<<<"name", "mck1">>>>],
    [n |-> "spdiftx_clk", k |-> "periph", id |-> 0, e |-> FALSE,
     p |-> <<<<"name", "mck1">>>>],
    [n |-> "ssc0_clk", k |-> "periph", id |-> 0, e |-> FALSE,
     p |-> <<<<"name", "mck1">>>>],
    [n |-> "ssc1_clk", k |-> "periph", id |-> 0, e |-> FALSE,
     p |-> <<<<"name", "mck1">>>>],
    [n |-> "tcb0_ch0_clk", k |-> "periph", id |-> 0, e |-> FALSE,
     p |-> <<<<"name", "mck1">>>>],
    [n |-> "tcb0_ch1_clk", k |-> "periph", id |-> 0, e |-> FALSE,
     p |-> <<<<"name", "mck1">>>>],
    [n |-> "tcb0_ch2_clk", k |-> "periph", id |-> 0, e |-> FALSE,
     p |-> <<<<"name", "mck1">>>>],
    [n |-> "tcb1_ch0_clk", k |-> "periph", id |-> 0, e |-> FALSE,
     p |-> <<<<"name", "mck1">>>>],
    [n |-> "tcb1_ch1_clk", k |-> "periph", id |-> 0, e |-> FALSE,
     p |-> <<<<"name", "mck1">>>>],
    [n |-> "tcb1_ch2_clk", k |-> "periph", id |-> 0, e |-> FALSE,
     p |-> <<<<"name", "mck1">>>>],
    [n |-> "tcpca_clk", k |-> "periph", id |-> 0, e |-> FALSE,
     p |-> <<<<"name", "mck1">>>>],
    [n |-> "tcpcb_clk", k |-> "periph", id |-> 0, e |-> FALSE,
     p |-> <<<<"name", "mck1">>>>],
    [n |-> "tdes_clk", k |-> "periph", id |-> 0, e |-> FALSE,
     p |-> <<<<"name", "mck1">>>>],
    [n |-> "trng_clk", k |-> "periph", id |-> 0, e |-> FALSE,
     p |-> <<<<"name", "mck1">>>>],
    [n |-> "udphsa_clk", k |-> "periph", id |-> 0, e |-> FALSE,
     p |-> <<<<"name", "mck1">>>>],
    [n |-> "udphsb_clk", k |-> "periph", id |-> 0, e |-> FALSE,
     p |-> <<<<"name", "mck1">>>>],
    [n |-> "uhphs_clk", k |-> "periph", id |-> 0, e |-> FALSE,
     p |-> <<<<"name", "mck1">>>>],
    [n |-> "adc_gclk", k |-> "gck", id |-> 0, e |-> FALSE,
     p |-> <<<<"local", "md_slck">>, <<"local", "td_slck">>, <<"local", "main_clk">>, <<"name", "syspll_divpmcck">>, <<"name", "imgpll_divpmcck">>, <<"name", "audiopll_divpmcck">>>>],
    [n |-> "asrc_gclk", k |-> "gck", id |-> 0, e |-> FALSE,
     p |-> <<<<"local", "md_slck">>, <<"local", "td_slck">>, <<"local", "main_clk">>, <<"name", "audiopll_divpmcck">>>>],
    [n |-> "csi_gclk", k |-> "gck", id |-> 0, e |-> FALSE,
     p |-> <<<<"local", "md_slck">>, <<"local", "td_slck">>, <<"local", "main_clk">>, <<"name", "ddrpll_divpmcck">>, <<"name", "imgpll_divpmcck">>>>],
    [n |-> "flex0_gclk", k |-> "gck", id |-> 0, e |-> FALSE,
     p |-> <<<<"local", "md_slck">>, <<"local", "td_slck">>, <<"local", "main_clk">>, <<"name", "syspll_divpmcck">>, <<"name", "baudpll_divpmcck">>>>],
    [n |-> "flex1_gclk", k |-> "gck", id |-> 0, e |-> FALSE,
     p |-> <<<<"local", "md_slck">>, <<"local", "td_slck">>, <<"local", "main_clk">>, <<"name", "syspll_divpmcck">>, <<"name", "baudpll_divpmcck">>>>],
    [n |-> "flex2_gclk", k |-> "gck", id |-> 0, e |-> FALSE,
     p |-> <<<<"local", "md_slck">>, <<"local", "td_slck">>, <<"local", "main_clk">>, <<"name", "syspll_divpmcck">>, <<"name", "baudpll_divpmcck">>>>],
    [n |-> "flex3_gclk", k |-> "gck", id |-> 0, e |-> FALSE,
     p |-> <<<<"local", "md_slck">>, <<"local", "td_slck">>, <<"local", "main_clk">>, <<"name", "syspll_divpmcck">>, <<"name", "baudpll_divpmcck">>>>],
    [n |-> "flex4_gclk", k |-> "gck", id |-> 0, e |-> FALSE,
     p |-> <<<<"local", "md_slck">>, <<"local", "td_slck">>, <<"local", "main_clk">>, <<"name", "syspll_divpmcck">>, <<"name", "baudpll_divpmcck">>>>],
    [n |-> "flex5_gclk", k |-> "gck", id |-> 0, e |-> FALSE,
     p |-> <<<<"local", "md_slck">>, <<"local", "td_slck">>, <<"local", "main_clk">>, <<"name", "syspll_divpmcck">>, <<"name", "baudpll_divpmcck">>>>],
    [n |-> "flex6_gclk", k |-> "gck", id |-> 0, e |-> FALSE,
     p |-> <<<<"local", "md_slck">>, <<"local", "td_slck">>, <<"local", "main_clk">>, <<"name", "syspll_divpmcck">>, <<"name", "baudpll_divpmcck">>>>],
    [n |-> "flex7_gclk", k |-> "gck", id |-> 0, e |-> FALSE,
     p |-> <<<<"local", "md_slck">>, <<"local", "td_slck">>, <<"local", "main_clk">>, <<"name", "syspll_divpmcck">>, <<"name", "baudpll_divpmcck">>>>],
    [n |-> "flex8_gclk", k |-> "gck", id |-> 0, e |-> FALSE,
     p |-> <<<<"local", "md_slck">>, <<"local", "td_slck">>, <<"local", "main_clk">>, <<"name", "syspll_divpmcck">>, <<"name", "baudpll_divpmcck">>>>],
    [n |-> "flex9_gclk", k |-> "gck", id |-> 0, e |-> FALSE,
     p |-> <<<<"local", "md_slck">>, <<"local", "td_slck">>, <<"local", "main_clk">>, <<"name", "syspll_divpmcck">>, <<"name", "baudpll_divpmcck">>>>],
    [n |-> "flex10_gclk", k |-> "gck", id |-> 0, e |-> FALSE,
     p |-> <<<<"local", "md_slck">>, <<"local", "td_slck">>, <<"local", "main_clk">>, <<"name", "syspll_divpmcck">>, <<"name", "baudpll_divpmcck">>>>],
    [n |-> "flex11_gclk", k |-> "gck", id |-> 0, e |-> FALSE,
     p |-> <<<<"local", "md_slck">>, <<"local", "td_slck">>, <<"local", "main_clk">>, <<"name", "syspll_divpmcck">>, <<"name", "baudpll_divpmcck">>>>],
    [n |-> "gmac0_gclk", k |-> "gck", id |-> 0, e |-> FALSE,
     p |-> <<<<"local", "md_slck">>, <<"local", "td_slck">>, <<"local", "main_clk">>, <<"name", "ethpll_divpmcck">>>>],
    [n |-> "gmac1_gclk", k |-> "gck", id |-> 0, e |-> FALSE,
     p |-> <<<<"local", "md_slck">>, <<"local", "td_slck">>, <<"local", "main_clk">>, <<"name", "ethpll_divpmcck">>>>],
    [n |-> "gmac0_tsu_gclk", k |-> "gck", id |-> 0, e |-> FALSE,
     p |-> <<<<"local", "md_slck">>, <<"local", "td_slck">>, <<"local", "main_clk">>, <<"name", "audiopll_divpmcck">>, <<"name", "ethpll_divpmcck">>>>],
    [n |-> "gmac1_tsu_gclk", k |-> "gck", id |-> 0, e |-> FALSE,
     p |-> <<<<"local", "md_slck">>, <<"local", "td_slck">>, <<"local", "main_clk">>, <<"name", "audiopll_divpmcck">>, <<"name", "ethpll_divpmcck">>>>],
    [n |-> "i2smcc0_gclk", k |-> "gck", id |-> 0, e |-> FALSE,
     p |-> <<<<"local", "md_slck">>, <<"local", "td_slck">>, <<"local", "main_clk">>, <<"name", "syspll_divpmcck">>, <<"name", "audiopll_divpmcck">>>>],
    [n |-> "i2smcc1_gclk", k |-> "gck", id |-> 0, e |-> FALSE,
     p |-> <<<<"local", "md_slck">>, <<"local", "td_slck">>, <<"local", "main_clk">>, <<"name", "syspll_divpmcck">>, <<"name", "audiopll_divpmcck">>>>],
    [n |-> "mcan0_gclk", k |-> "gck", id |-> 0, e |-> FALSE,
     p |-> <<<<"local", "md_slck">>, <<"local", "td_slck">>, <<"local", "main_clk">>, <<"name", "syspll_divpmcck">>, <<"name", "baudpll_divpmcck">>>>],
    [n |-> "mcan1_gclk", k |-> "gck", id |-> 0, e |-> FALSE,
     p |-> <<<<"local", "md_slck">>, <<"local", "td_slck">>, <<"local", "main_clk">>, <<"name", "syspll_divpmcck">>, <<"name", "baudpll_divpmcck">>>>],
    [n |-> "mcan2_gclk", k |-> "gck", id |-> 0, e |-> FALSE,
     p |-> <<<<"local", "md_slck">>, <<"local", "td_slck">>, <<"local", "main_clk">>, <<"name", "syspll_divpmcck">>, <<"name", "baudpll_divpmcck">>>>],
    [n |-> "mcan3_gclk", k |-> "gck", id |-> 0, e |-> FALSE,
     p |-> <<<<"local", "md_slck">>, <<"local", "td_slck">>, <<"local", "main_clk">>, <<"name", "syspll_divpmcck">>, <<"name", "baudpll_divpmcck">>>>],
    [n |-> "mcan4_gclk", k |-> "gck", id |-> 0, e |-> FALSE,
     p |-> <<<<"local", "md_slck">>, <<"local", "td_slck">>, <<"local", "main_clk">>, <<"name", "syspll_divpmcck">>, <<"name", "baudpll_divpmcck">>>>],
    [n |-> "mcan5_gclk", k |-> "gck", id |-> 0, e |-> FALSE,
     p |-> <<<<"local", "md_slck">>, <<"local", "td_slck">>, <<"local", "main_clk">>, <<"name", "syspll_divpmcck">>, <<"name", "baudpll_divpmcck">>>>],
    [n |-> "pdmc0_gclk", k |-> "gck", id |-> 0, e |-> FALSE,
     p |-> <<<<"local", "md_slck">>, <<"local", "td_slck">>, <<"local", "main_clk">>, <<"name", "syspll_divpmcck">>, <<"name", "audiopll_divpmcck">>>>],
    [n |-> "pdmc1_gclk", k |-> "gck", id |-> 0, e |-> FALSE,
     p |-> <<<<"local", "md_slck">>, <<"local", "td_slck">>, <<"local", "main_clk">>, <<"name", "syspll_divpmcck">>, <<"name", "audiopll_divpmcck">>>>],
    [n |-> "pit64b0_gclk", k |-> "gck", id |-> 0, e |-> FALSE,
     p |-> <<<<"local", "md_slck">>, <<"local", "td_slck">>, <<"local", "main_clk">>, <<"name", "syspll_divpmcck">>, <<"name", "imgpll_divpmcck">>, <<"name", "baudpll_divpmcck">>, <<"name", "audiopll_divpmcck">>, <<"name", "ethpll_divpmcck">>>>],
    [n |-> "pit64b1_gclk", k |-> "gck", id |-> 0, e |-> FALSE,
     p |-> <<<<"local", "md_slck">>, <<"local", "td_slck">>, <<"local", "main_clk">>, <<"name", "syspll_divpmcck">>, <<"name", "imgpll_divpmcck">>, <<"name", "baudpll_divpmcck">>, <<"name", "audiopll_divpmcck">>, <<"name", "ethpll_divpmcck">>>>],
    [n |-> "pit64b2_gclk", k |-> "gck", id |-> 0, e |-> FALSE,
     p |-> <<<<"local", "md_slck">>, <<"local", "td_slck">>, <<"local", "main_clk">>, <<"name", "syspll_divpmcck">>, <<"name", "imgpll_divpmcck">>, <<"name", "baudpll_divpmcck">>, <<"name", "audiopll_divpmcck">>, <<"name", "ethpll_divpmcck">>>>],
    [n |-> "pit64b3_gclk", k |-> "gck", id |-> 0, e |-> FALSE,
     p |-> <<<<"local", "md_slck">>, <<"local", "td_slck">>, <<"local", "main_clk">>, <<"name", "syspll_divpmcck">>, <<"name", "imgpll_divpmcck">>, <<"name", "baudpll_divpmcck">>, <<"name", "audiopll_divpmcck">>, <<"name", "ethpll_divpmcck">>>>],
    [n |-> "pit64b4_gclk", k |-> "gck", id |-> 0, e |-> FALSE,
     p |-> <<<<"local", "md_slck">>, <<"local", "td_slck">>, <<"local", "main_clk">>, <<"name", "syspll_divpmcck">>, <<"name", "imgpll_divpmcck">>, <<"name", "baudpll_divpmcck">>, <<"name", "audiopll_divpmcck">>, <<"name", "ethpll_divpmcck">>>>],
    [n |-> "pit64b5_gclk", k |-> "gck", id |-> 0, e |-> FALSE,
     p |-> <<<<"local", "md_slck">>, <<"local", "td_slck">>, <<"local", "main_clk">>, <<"name", "syspll_divpmcck">>, <<"name", "imgpll_divpmcck">>, <<"name", "baudpll_divpmcck">>, <<"name", "audiopll_divpmcck">>, <<"name", "ethpll_divpmcck">>>>],
    [n |-> "qspi0_gclk", k |-> "gck", id |-> 0, e |-> FALSE,
     p |-> <<<<"local", "md_slck">>, <<"local", "td_slck">>, <<"local", "main_clk">>, <<"name", "syspll_divpmcck">>, <<"name", "baudpll_divpmcck">>>>],
    [n |-> "qspi1_gclk", k |-> "gck", id |-> 0, e |-> FALSE,
     p |-> <<<<"local", "md_slck">>, <<"local", "td_slck">>, <<"local", "main_clk">>, <<"name", "syspll_divpmcck">>, <<"name", "baudpll_divpmcck">>>>],
    [n |-> "sdmmc0_gclk", k |-> "gck", id |-> 0, e |-> FALSE,
     p |-> <<<<"local", "md_slck">>, <<"local", "td_slck">>, <<"local", "main_clk">>, <<"name", "syspll_divpmcck">>, <<"name", "baudpll_divpmcck">>>>],
    [n |-> "sdmmc1_gclk", k |-> "gck", id |-> 0, e |-> FALSE,
     p |-> <<<<"local", "md_slck">>, <<"local", "td_slck">>, <<"local", "main_clk">>, <<"name", "syspll_divpmcck">>, <<"name", "baudpll_divpmcck">>>>],
    [n |-> "sdmmc2_gclk", k |-> "gck", id |-> 0, e |-> FALSE,
     p |-> <<<<"local", "md_slck">>, <<"local", "td_slck">>, <<"local", "main_clk">>, <<"name", "syspll_divpmcck">>, <<"name", "baudpll_divpmcck">>>>],
    [n |-> "spdifrx_gclk", k |-> "gck", id |-> 0, e |-> FALSE,
     p |-> <<<<"local", "md_slck">>, <<"local", "td_slck">>, <<"local", "main_clk">>, <<"name", "syspll_divpmcck">>, <<"name", "audiopll_divpmcck">>>>],
    [n |-> "spdiftx_gclk", k |-> "gck", id |-> 0, e |-> FALSE,
     p |-> <<<<"local", "md_slck">>, <<"local", "td_slck">>, <<"local", "main_clk">>, <<"name", "syspll_divpmcck">>, <<"name", "audiopll_divpmcck">>>>],
    [n |-> "tcb0_ch0_gclk", k |-> "gck", id |-> 0, e |-> FALSE,
     p |-> <<<<"local", "md_slck">>, <<"local", "td_slck">>, <<"local", "main_clk">>, <<"name", "syspll_divpmcck">>, <<"name", "imgpll_divpmcck">>, <<"name", "baudpll_divpmcck">>, <<"name", "audiopll_divpmcck">>, <<"name", "ethpll_divpmcck">>>>],
    [n |-> "tcb1_ch0_gclk", k |-> "gck", id |-> 0, e |-> FALSE,
     p |-> <<<<"local", "md_slck">>, <<"local", "td_slck">>, <<"local", "main_clk">>, <<"name", "syspll_divpmcck">>, <<"name", "imgpll_divpmcck">>, <<"name", "baudpll_divpmcck">>, <<"name", "audiopll_divpmcck">>, <<"name", "ethpll_divpmcck">>>>]
>>

\* Rates mainck may report (0: not configured) and lock bits found at boot.
SetupMainRates == {0, input_min, input_min + 8}

SetupLocks == {{}, {PLL_ID_CPU, PLL_ID_CPU + 1}, PllIds}

SetupNames(s) == {s.nodes[k].n : k \in 1 .. Len(s.nodes)}

\* Clocks found through sama7g5_pmc->chws[] / pmc_clk_get_by_name.
SetupExported(s) ==
    {s.nodes[k].n : k \in {j \in 1 .. Len(s.nodes) : s.nodes[j].e}}

\* pmc_clk_get_by_name(sama7g5_pmc->chws, ncore, name): the exported clock
\* of that name, NULL when there is none.
pmc_clk_get_by_name(s, name) ==
    IF name \in SetupExported(s) THEN name ELSE "NULL"

\* sama7g5_pmc->chws[eid].clk for the eid of the table entry called name:
\* the clock stored there, NULL (the calloc'ed value) before it is.
SetupChws(s, name) ==
    IF name \in SetupExported(s) THEN name ELSE "NULL"

\* The clock a parent expression denotes while clock `self' is registered.
SetupResolve(item, s, self) ==
    IF item[1] = "clk" THEN item[2]
    ELSE IF item[1] = "prev" THEN s.nodes[Len(s.nodes)].n
    ELSE IF item[1] = "local" THEN s.locals[item[2]]
    ELSE IF item[1] = "array" THEN s.locals.parents[item[2]]
    ELSE IF item[1] = "oob" THEN s.locals.oob
    ELSE IF item[1] = "chws" THEN SetupChws(s, item[2])
    ELSE pmc_clk_get_by_name(s, item[2])

\* if (!clk) panic();
SetupAfterIgnoreNull(clk) == "run"

SetupAfter(clk) == IF clk = "NULL" THEN "panic" ELSE "run"

\* sam9x60_clk_register_frac_pll returns a clock: the PLL is locked, or its
\* parent has a rate and the minimum rate can be computed.
SetupFracOk(id) ==
    \/ sam9x60_pll_ready(id)
    \/ /\ parent_rate # 0
       /\ sam9x60_frac_pll_compute_mul_frac(0, 0, core_output_min,
                                            parent_rate).ret > 0

\* The fields a registration function stores in the node it builds.
SetupNodeState(row) ==
    IF row.k = "frac"
    THEN IF sam9x60_pll_ready(row.id)
         THEN <<pll_ctrl1[row.id].mul, pll_ctrl1[row.id].fracr>>
         ELSE LET c == sam9x60_frac_pll_compute_mul_frac(
                           0, 0, core_output_min, parent_rate)
              IN  <<c.mul, c.frac>>
    ELSE IF row.k = "div"
    THEN <<pll_ctrl0[row.id].divpmc % (PMC_PLL_CTRL0_DIV_MSK + 1)>>
    ELSE IF row.k = "master"
    THEN <<mcr_v2[row.id].css, mcr_v2[row.id].div>>
    ELSE <<>>

\* The registrations that hand over the local array parents[]: the count
\* they pass with it and the highest index written for them (-1: none).
SetupArrayKinds == {"master_pres", "master", "prog", "periph", "gck"}

SetupArrayUse(row) ==
    IF row.k \in SetupArrayKinds
    THEN [count |-> Len(row.p), top |-> Len(row.p) - 1]
    ELSE [count |-> 0, top |-> -1]

\* The local variables after clock n was obtained.
SetupBind(locals, n) ==
    IF n = "md_slck" THEN [locals EXCEPT !.md_slck = n, !.td_slck = n]
    ELSE IF n = "mainck" THEN [locals EXCEPT !.main_clk = n]
    ELSE locals

\* parents[0..2] are filled from md_slck, td_slck and main_clk before the
\* first programmable clock is registered, and parents[8] =
\* pll_div_clk[PLL_ID_ETH] is written one element past the array
\* (PARENT_SIZE elements): the value lands in whatever follows the array.
\* The slot reads back as written or as something else, and one of the
\* pointers used afterwards may have taken the value.
SetupOobWrite(locals, n, v, slot, victim) ==
    IF n # "prog0" THEN locals
    ELSE LET l == [locals EXCEPT
                      !.oob = slot,
                      !.parents = [md_slck |-> locals.md_slck,
                                   td_slck |-> locals.td_slck,
                                   main_clk |-> locals.main_clk]]
         IN  IF victim = "none" THEN l ELSE [l EXCEPT ![victim] = v]

SetupVictims == {"none", "md_slck", "td_slck", "main_clk"}

clkState == <<pc, core_id, frac_mul, frac_frac, div_div, div_chg, div_layout,
              master, pll_updt, pll_ctrl0, pll_ctrl1, pll_isr0, mcr_v2,
              writes, last, achieved, by_driver>>

InitSetup ==
    /\ pc = "unregistered"
    /\ core_id = 0
    /\ parent_rate \in SetupMainRates
    /\ frac_mul = 0
    /\ frac_frac = 0
    /\ achieved = 0
    /\ by_driver = FALSE
    /\ pll_updt = [id |-> 0, update |-> FALSE]
    /\ pll_ctrl0 = [i \in PllIds |-> Ctrl0Reset]
    /\ pll_ctrl1 = [i \in PllIds |-> [mul |-> 0, rsvd |-> 0, fracr |-> 0]]
    /\ \E locked \in SetupLocks : pll_isr0 = [i \in PllIds |-> i \in locked]
    /\ writes = <<>>
    /\ last = NoCall
    /\ FracIdle
    /\ mck_sr = MckSrIdle
    /\ race = RaceIdle
    /\ matrix = MatrixIdle
    /\ setup = [pc |-> "run", step |-> 1, nodes |-> <<>>, heap |-> {},
                failed |-> "",
                locals |-> [md_slck |-> "NULL", td_slck |-> "NULL",
                            main_clk |-> "NULL", oob |-> "NULL",
                            parents |-> [md_slck |-> "NULL",
                                         td_slck |-> "NULL",
                                         main_clk |-> "NULL"]]]
    /\ tcb = TcbIdle
    /\ periph = PeriphIdle

\* One registration returns a clock.
SetupRegister ==
    /\ setup.pc = "run"
    /\ setup.step <= Len(SetupTable)
    /\ LET row == SetupTable[setup.step]
       IN  /\ row.k = "frac" => SetupFracOk(row.id)
           /\ \E slot \in {"ethpll_divpmcck", "garbage"},
                 victim \in SetupVictims :
                 LET s == [setup EXCEPT !.locals = SetupOobWrite(
                               SetupBind(@, row.n), row.n,
                               "ethpll_divpmcck", slot, victim)]
                     node == [n |-> row.n, e |-> row.e,
                              parents |-> [i \in 1 .. Len(row.p) |->
                                  SetupResolve(row.p[i], s, row.n)],
                              st |-> SetupNodeState(row),
                              arr |-> SetupArrayUse(row)]
                 IN  setup' = [s EXCEPT !.pc = SetupAfter(row.n),
                                        !.step = @ + 1,
                                        !.nodes = Append(@, node),
                                        !.heap = @ \cup {row.n}]
    /\ UNCHANGED <<clkState, parent_rate, mck_sr, race, matrix, tcb,
                   periph>>

\* One registration returns NULL (for a device-tree clock: an error): what
\* it allocated is freed again, and pmc_setup_sama7g5 panics.
SetupRegisterFails ==
    /\ setup.pc = "run"
    /\ setup.step <= Len(SetupTable)
    /\ LET row == SetupTable[setup.step]
       IN  setup' = [setup EXCEPT !.pc = SetupAfter("NULL"),
                                  !.step = @ + 1,
                                  !.heap = (@ \cup {row.n}) \ {row.n},
                                  !.failed = row.n]
    /\ UNCHANGED <<clkState, parent_rate, mck_sr, race, matrix, tcb,
                   periph>>

\* return TEE_SUCCESS;
SetupReturn ==
    /\ setup.pc = "run"
    /\ setup.step = Len(SetupTable) + 1
    /\ setup' = [setup EXCEPT !.pc = "done"]
    /\ UNCHANGED <<clkState, parent_rate, mck_sr, race, matrix, tcb,
                   periph>>

NextSetup ==
    \/ SetupRegister
    \/ SetupRegisterFails
    \/ SetupReturn

SpecSetup == InitSetup /\ [][NextSetup]_vars

(***************************************************************************)
(* Two PLL operations on different ids, interleaved between their register *)
(* accesses.  PLL_CTRL0 and PLL_CTRL1 are a window onto the PLL whose id   *)
(* PLL_UPDT holds.  race is [procs, calls, stray, overlap]: procs[p] is    *)
(* [id, op, pos, mul, div], the operation in progress, the index of its    *)
(* next register access and the node's stored values; calls counts the     *)
(* operations called so far; stray records that a CTRL0/CTRL1 access was   *)
(* made while PLL_UPDT held another id, overlap that a step was taken      *)
(* while the other operation was in progress.                              *)
(***************************************************************************)
\* The register accesses of each operation, in program order.
RaceProgram(op) ==
    IF op = "frac_enable"
    THEN <<"sel", "rd1", "acr", "wr1", "strobe", "en0", "strobe", "poll">>
    ELSE IF op = "frac_set_rate"
    THEN <<"sel", "rd1", "wr1", "strobe", "en0", "strobe", "poll">>
    ELSE IF op = "frac_disable"
    THEN <<"sel", "dis0", "strobe">>
    ELSE IF op = "div_enable"
    THEN <<"sel", "rd0", "div0", "strobe", "poll">>
    ELSE IF op = "div_disable"
    THEN <<"sel", "disdiv0", "strobe">>
    ELSE <<>>

RaceOps ==
    {"frac_enable", "frac_set_rate", "frac_disable", "div_enable",
     "div_disable"}

\* Accesses that go through the PLL_CTRL0 / PLL_CTRL1 window.
RaceWindowAccess == {"rd1", "wr1", "en0", "dis0", "rd0", "div0", "disdiv0"}

\* Pairs of PLL ids the two operations work on, and the multipliers
\* set_rate stores.
RaceIds == {<<PLL_ID_CPU, PLL_ID_CPU + 1>>, <<PLL_ID_AUDIO, PLL_ID_CPU + 1>>}

RaceMuls == {49, 99}

\* Number of operations called on the two nodes together.
RaceMaxCalls == 3

\* io_clrsetbits32(PLL_UPDT, AT91_PMC_PLL_UPDT_ID_MSK, core->id)
RaceSelectStale(updt, id) == updt

RaceSelect(updt, id) == [updt EXCEPT !.id = id]

RaceOther(p) == 3 - p

InitRace ==
    /\ pc = "unregistered"
    /\ core_id = 0
    /\ parent_rate = input_min
    /\ frac_mul = 0
    /\ frac_frac = 0
    /\ achieved = 0
    /\ by_driver = FALSE
    /\ pll_updt = [id |-> 0, update |-> FALSE]
    /\ pll_ctrl0 = [i \in PllIds |-> Ctrl0Reset]
    /\ pll_ctrl1 = [i \in PllIds |-> [mul |-> 0, rsvd |-> 0, fracr |-> 0]]
    /\ pll_isr0 = [i \in PllIds |-> FALSE]
    /\ writes = <<>>
    /\ last = NoCall
    /\ FracIdle
    /\ mck_sr = MckSrIdle
    /\ setup = SetupIdle
    /\ matrix = MatrixIdle
    /\ \E ids \in RaceIds :
          race = [procs |-> [p \in 1 .. 2 |->
                               [id |-> ids[p], op |-> "idle", pos |-> 0,
                                mul |-> 49, div |-> p]],
                  calls |-> 0,
                  stray |-> FALSE, overlap |-> FALSE]
    /\ tcb = TcbIdle
    /\ periph = PeriphIdle

\* Operation op is called on the node of process p; set_rate has computed
\* and stored a multiplier before its first register access.
RaceBegin(p, op) ==
    /\ race.procs[p].op = "idle"
    /\ race.calls < RaceMaxCalls
    /\ \E m \in RaceMuls :
          race' = [race EXCEPT
                      !.procs[p].op = op,
                      !.calls = @ + 1,
                      !.procs[p].pos = 1,
                      !.procs[p].mul = IF op = "frac_set_rate" THEN m ELSE @,
                      !.overlap = @ \/ race.procs[RaceOther(p)].op # "idle"]
    /\ UNCHANGED <<clkState, parent_rate, mck_sr, setup, matrix, tcb,
                   periph>>

\* The next register access of the operation of process p.
RaceStep(p) ==
    LET me == race.procs[p]
        prog == RaceProgram(me.op)
        a == prog[me.pos]
        sel == pll_updt.id
        early ==
            \/ /\ me.op = "frac_enable"
               /\ a = "rd1"
               /\ sam9x60_pll_ready(me.id)
               /\ pll_ctrl1[sel].mul = me.mul
               /\ pll_ctrl1[sel].fracr = 0
            \/ /\ me.op = "div_enable"
               /\ a = "rd0"
               /\ pll_ctrl0[sel].endivpmc
               /\ pll_ctrl0[sel].divpmc = me.div
        finished == early \/ me.pos = Len(prog)
    IN  /\ me.op # "idle"
        /\ a = "poll" => sam9x60_pll_ready(me.id)
        /\ pll_updt' =
              IF a = "sel" THEN RaceSelect(pll_updt, me.id)
              ELSE IF a = "strobe" THEN [id |-> me.id, update |-> TRUE]
              ELSE pll_updt
        /\ pll_ctrl1' =
              IF a = "wr1"
              THEN [pll_ctrl1 EXCEPT ![sel] = Ctrl1Word(me.mul, 0)]
              ELSE pll_ctrl1
        /\ pll_ctrl0' =
              IF a = "en0"
              THEN [pll_ctrl0 EXCEPT ![sel].enpll = TRUE,
                                     ![sel].enlock = TRUE]
              ELSE IF a = "dis0"
              THEN [pll_ctrl0 EXCEPT ![sel] = FracDisableCtrl0(@)]
              ELSE IF a = "div0"
              THEN [pll_ctrl0 EXCEPT
                       ![sel] = Ctrl0SetDiv(@, "divpmc", me.div, TRUE)]
              ELSE IF a = "disdiv0"
              THEN [pll_ctrl0 EXCEPT ![sel] = Ctrl0ClearEndiv(@, "divpmc")]
              ELSE pll_ctrl0
        /\ IF a = "strobe"
           THEN \E l \in BOOLEAN :
                   pll_isr0' = [pll_isr0 EXCEPT ![me.id] =
                                   l /\ (pll_ctrl0[me.id].enpll
                                         \/ pll_ctrl0[me.id].endivpmc)]
           ELSE UNCHANGED pll_isr0
        /\ race' = [race EXCEPT
                      !.procs[p].op = IF finished THEN "idle" ELSE @,
                      !.procs[p].pos = IF finished THEN 0 ELSE @ + 1,
                      !.stray = @ \/ (a \in RaceWindowAccess /\ sel # me.id),
                      !.overlap = @ \/ race.procs[RaceOther(p)].op # "idle"]
        /\ UNCHANGED <<pc, core_id, parent_rate, frac_mul, frac_frac, div_div,
                       div_chg, div_layout, master, mcr_v2, writes, last,
                       achieved, by_driver, mck_sr, setup, matrix, tcb,
                   periph>>

\* The hardware raises the lock bit of an enabled PLL.
RaceHwLock(i) ==
    /\ ~pll_isr0[i]
    /\ pll_ctrl0[i].enpll \/ pll_ctrl0[i].endivpmc
    /\ pll_isr0' = [pll_isr0 EXCEPT ![i] = TRUE]
    /\ UNCHANGED <<pc, core_id, parent_rate, frac_mul, frac_frac, div_div,
                   div_chg, div_layout, master, pll_updt, pll_ctrl0,
                   pll_ctrl1, mcr_v2, writes, last, achieved, by_driver,
                   extState>>

NextRace ==
    \/ \E p \in 1 .. 2, op \in RaceOps : RaceBegin(p, op)
    \/ \E p \in 1 .. 2 : RaceStep(p)
    \/ \E i \in PllIds : RaceHwLock(i)

SpecRace == InitRace /\ [][NextRace]_vars

(***************************************************************************)
(* The bus matrix error interrupt (plat-sam/matrix.c).  matrix is [pc,      *)
(* meier, meimr, mesr, master, handled]: whether matrix_interrupt_init has  *)
(* run, the values written to MATRIX_MEIER and MATRIX_MEIMR, the error      *)
(* status register (bit m: master m made a refused access since the last    *)
(* read), the master matrix_disp_error last found, and the number of        *)
(* interrupts handled.                                                      *)
(***************************************************************************)
MATRIX_MASTER_COUNT == 12

\* Pending errors the hardware holds at once, interrupts handled.
MatrixMaxPending == 2

MatrixMaxHandled == 2

MatrixBit(v, i) == (v \div (2 ^ i)) % 2 = 1

MatrixMasters == 0 .. (MATRIX_MASTER_COUNT - 1)

MatrixPending(v) == {m \in MatrixMasters : MatrixBit(v, m)}

\* __builtin_ctz(mesr), mesr # 0
MatrixCtz(v) == CHOOSE m \in 0 .. 31 :
                   /\ MatrixBit(v, m)
                   /\ \A k \in 0 .. (m - 1) : ~MatrixBit(v, k)

InitMatrix ==
    /\ pc = "unregistered"
    /\ core_id = 0
    /\ parent_rate = input_min
    /\ frac_mul = 0
    /\ frac_frac = 0
    /\ achieved = 0
    /\ by_driver = FALSE
    /\ pll_updt = [id |-> 0, update |-> FALSE]
    /\ pll_ctrl0 = [i \in PllIds |-> Ctrl0Reset]
    /\ pll_ctrl1 = [i \in PllIds |-> [mul |-> 0, rsvd |-> 0, fracr |-> 0]]
    /\ pll_isr0 = [i \in PllIds |-> FALSE]
    /\ writes = <<>>
    /\ last = NoCall
    /\ FracIdle
    /\ mck_sr = MckSrIdle
    /\ race = RaceIdle
    /\ setup = SetupIdle
    /\ matrix = MatrixIdle
    /\ tcb = TcbIdle
    /\ periph = PeriphIdle

\* matrix_interrupt_init: the handler is installed and enabled, then
\* MATRIX_MASTER_COUNT - 1 is written to MATRIX_MEIER and to MATRIX_MEIMR.
MatrixInterruptInit ==
    /\ matrix.pc = "off"
    /\ matrix' = [matrix EXCEPT !.pc = "on",
                                !.meier = MATRIX_MASTER_COUNT - 1,
                                !.meimr = MATRIX_MASTER_COUNT - 1]
    /\ UNCHANGED <<clkState, parent_rate, mck_sr, race, setup, tcb,
                   periph>>

\* Hardware: an access of master m is refused; its bit of MATRIX_MESR is set.
MatrixMasterError(m) ==
    /\ ~MatrixBit(matrix.mesr, m)
    /\ Cardinality(MatrixPending(matrix.mesr)) < MatrixMaxPending
    /\ matrix' = [matrix EXCEPT !.mesr = @ + (2 ^ m)]
    /\ UNCHANGED <<clkState, parent_rate, mck_sr, race, setup, tcb,
                   periph>>

\* matrix_it_handler -> matrix_disp_error, entered when a master whose error
\* interrupt is enabled has a pending error; reading MATRIX_MESR clears it.
MatrixItHandler ==
    /\ matrix.pc = "on"
    /\ matrix.handled < MatrixMaxHandled
    /\ \E m \in MatrixPending(matrix.mesr) : MatrixBit(matrix.meier, m)
    /\ matrix' = [matrix EXCEPT !.master = MatrixCtz(matrix.mesr),
                                !.mesr = 0,
                                !.handled = @ + 1]
    /\ UNCHANGED <<clkState, parent_rate, mck_sr, race, setup, tcb,
                   periph>>

NextMatrix ==
    \/ MatrixInterruptInit
    \/ \E m \in MatrixMasters : MatrixMasterError(m)
    \/ MatrixItHandler

SpecMatrix == InitMatrix /\ [][NextMatrix]_vars

(***************************************************************************)
(* The timer counter block (plat-sam/drivers/timer/atmel_tcb.c).  Channel 0 *)
(* counts the slow clock over 32 bits; its output TIOA0 is set when the     *)
(* counter reaches RA and cleared when it reaches RC; channel 1 counts the  *)
(* rising edges of TIOA0.  A 32-bit counter is the pair [h, l] of its       *)
(* 16-bit halves.  tcb is [pc, rate, cv0, cv1, tioa, ticks, rd, hi, lo,     *)
(* at_lo, iters, prev, cur, time, calls]: rd is the reader's position in    *)
(* atmel_tcb_get_sys_time, hi and lo the words it read, at_lo the value of  *)
(* CV1 at the moment CV0 was read, iters the iterations of the read loop    *)
(* in the current call, cur and prev the 64-bit values                      *)
(* <<CV1, CV0.h, CV0.l>> built by the last two calls.                       *)
(***************************************************************************)
TEE_TIME_MILLIS_BASE == 1000

U16 == 65536

\* io_write32(TCB_RA(0), 0x1) and io_write32(TCB_RC(0), 0x80000000)
TcbRa == [h |-> 0, l |-> 1]

TcbRc == [h |-> 32768, l |-> 0]

\* Clock ticks observed, calls made.
TcbMaxTicks == 6

TcbMaxCalls == 3

\* tcb_rate = clk_get_rate(md_slck): the 32768 Hz slow clock, and two other
\* rates of at least TEE_TIME_MILLIS_BASE.
TcbRates == {32768, 1000, 1999}

TcbInc(c) ==
    IF c.l + 1 < U16 THEN [c EXCEPT !.l = @ + 1]
    ELSE [h |-> (c.h + 1) % U16, l |-> 0]

TcbLess(a, b) == a.h < b.h \/ (a.h = b.h /\ a.l < b.l)

\* The state of the two channels when channel 0 holds c after `wraps'
\* wraps: TIOA0 is high from RA up to RC, channel 1 has counted one rising
\* edge for each time channel 0 reached RA.
TcbHwAt(wraps, c) ==
    [cv0 |-> c,
     cv1 |-> IF TcbLess(c, TcbRa) THEN wraps ELSE wraps + 1,
     tioa |-> ~TcbLess(c, TcbRa) /\ TcbLess(c, TcbRc)]

\* Counter values at which observation starts.
TcbStarts ==
    {TcbHwAt(w, c) : w \in {0, 1},
                     c \in {[h |-> 0, l |-> 0],
                            [h |-> 32767, l |-> 65534],
                            [h |-> 65535, l |-> 65533]}}

\* One slow-clock tick of the hardware.
TcbHwTick(hw) ==
    LET c == TcbInc(hw.cv0)
        rise == c = TcbRa /\ ~hw.tioa
    IN  [cv0 |-> c,
         cv1 |-> IF rise THEN hw.cv1 + 1 ELSE hw.cv1,
         tioa |-> IF c = TcbRa THEN TRUE
                  ELSE IF c = TcbRc THEN FALSE
                  ELSE hw.tioa]

\* (cv1 << 32 | cv0) / d and % d for d <= 32768, by long division over the
\* 16-bit limbs; the quotient is cut to the 32 bits of time->seconds.
TcbDivMod(hi, lo, d) ==
    LET r1 == hi % d
        n2 == (r1 * U16) + lo.h
        n3 == ((n2 % d) * U16) + lo.l
    IN  [quot |-> [h |-> n2 \div d, l |-> n3 \div d], rem |-> n3 % d]

\* time->seconds = cv0 / tcb_rate;
\* time->millis = (cv0 % tcb_rate) / (tcb_rate / TEE_TIME_MILLIS_BASE);
TcbTime(hi, lo, rate) ==
    LET dm == TcbDivMod(hi, lo, rate)
    IN  [seconds |-> [h |-> dm.quot.h % U16, l |-> dm.quot.l % U16],
         millis |-> dm.rem \div (rate \div TEE_TIME_MILLIS_BASE)]

\* while (io_read32(tcb_base + TCB_CV(1)) != cv1)
TcbLoopAgainNever(now, cv1) == FALSE

TcbLoopAgain(now, cv1) == now # cv1

InitTcb ==
    /\ pc = "unregistered"
    /\ core_id = 0
    /\ parent_rate = input_min
    /\ frac_mul = 0
    /\ frac_frac = 0
    /\ achieved = 0
    /\ by_driver = FALSE
    /\ pll_updt = [id |-> 0, update |-> FALSE]
    /\ pll_ctrl0 = [i \in PllIds |-> Ctrl0Reset]
    /\ pll_ctrl1 = [i \in PllIds |-> [mul |-> 0, rsvd |-> 0, fracr |-> 0]]
    /\ pll_isr0 = [i \in PllIds |-> FALSE]
    /\ writes = <<>>
    /\ last = NoCall
    /\ FracIdle
    /\ mck_sr = MckSrIdle
    /\ race = RaceIdle
    /\ setup = SetupIdle
    /\ matrix = MatrixIdle
    /\ periph = PeriphIdle
    /\ tcb = TcbIdle

tcbOther == <<clkState, parent_rate, mck_sr, race, setup, matrix, periph>>

\* atmel_tcb_setup: tcb_rate is read and atmel_tcb_configure programs and
\* starts both channels from 0.
TcbConfigure(rate) ==
    /\ tcb.pc = "off"
    /\ tcb' = [pc |-> "on", rate |-> rate,
               cv0 |-> [h |-> 0, l |-> 0], cv1 |-> 0, tioa |-> FALSE,
               ticks |-> 0, rd |-> "idle", hi |-> 0,
               lo |-> [h |-> 0, l |-> 0], at_lo |-> 0, iters |-> 0,
               prev |-> <<0, 0, 0>>, cur |-> <<0, 0, 0>>,
               time |-> [seconds |-> [h |-> 0, l |-> 0], millis |-> 0],
               calls |-> 0]
    /\ UNCHANGED tcbOther

\* The counters run unobserved up to one of the starting values.
TcbElapse(hw) ==
    /\ tcb.pc = "on"
    /\ tcb.ticks = 0
    /\ tcb.calls = 0
    /\ tcb.rd = "idle"
    /\ tcb.cv0 = [h |-> 0, l |-> 0]
    /\ tcb.cv1 = 0
    /\ hw.cv1 # 0
    /\ tcb' = [tcb EXCEPT !.cv0 = hw.cv0, !.cv1 = hw.cv1, !.tioa = hw.tioa,
                          !.ticks = 1]
    /\ UNCHANGED tcbOther

\* One tick of the slow clock.
TcbTick ==
    /\ tcb.pc = "on"
    /\ tcb.ticks < TcbMaxTicks
    /\ LET hw == TcbHwTick([cv0 |-> tcb.cv0, cv1 |-> tcb.cv1,
                            tioa |-> tcb.tioa])
       IN  tcb' = [tcb EXCEPT !.cv0 = hw.cv0, !.cv1 = hw.cv1,
                              !.tioa = hw.tioa, !.ticks = @ + 1]
    /\ UNCHANGED tcbOther

\* cv1 = io_read32(tcb_base + TCB_CV(1)), on entry and on each iteration.
TcbReadHi ==
    /\ tcb.pc = "on"
    /\ \/ tcb.rd = "hi"
       \/ tcb.rd \in {"idle", "done"} /\ tcb.calls < TcbMaxCalls
    /\ tcb' = [tcb EXCEPT !.hi = tcb.cv1, !.rd = "lo",
                          !.iters = IF tcb.rd = "hi" THEN @ + 1 ELSE 1]
    /\ UNCHANGED tcbOther

\* cv0 = io_read32(tcb_base + TCB_CV(0))
TcbReadLo ==
    /\ tcb.pc = "on"
    /\ tcb.rd = "lo"
    /\ tcb' = [tcb EXCEPT !.lo = tcb.cv0, !.at_lo = tcb.cv1, !.rd = "again"]
    /\ UNCHANGED tcbOther

\* The loop condition reads CV1 again; on exit the time is computed.
TcbReadAgain ==
    /\ tcb.pc = "on"
    /\ tcb.rd = "again"
    /\ IF TcbLoopAgain(tcb.cv1, tcb.hi)
       THEN tcb' = [tcb EXCEPT !.rd = "hi"]
       ELSE tcb' = [tcb EXCEPT
                       !.rd = "done",
                       !.calls = @ + 1,
                       !.prev = tcb.cur,
                       !.cur = <<tcb.hi, tcb.lo.h, tcb.lo.l>>,
                       !.time = TcbTime(tcb.hi, tcb.lo, tcb.rate)]
    /\ UNCHANGED tcbOther

NextTcb ==
    \/ \E rate \in TcbRates : TcbConfigure(rate)
    \/ \E hw \in TcbStarts : TcbElapse(hw)
    \/ TcbTick
    \/ TcbReadHi
    \/ TcbReadLo
    \/ TcbReadAgain

SpecTcb == InitTcb /\ [][NextTcb]_vars

\* The reader is running code: each of its steps is eventually taken.
SpecTcbLive ==
    /\ SpecTcb
    /\ WF_vars(TcbReadHi)
    /\ WF_vars(TcbReadLo)
    /\ WF_vars(TcbReadAgain)

(***************************************************************************)
(* Bus matrix: peripheral security selection, matrix.c and the board's    *)
(* matrix_init.                                                            *)
(***************************************************************************)
\* matrix.c, peri_security_array (SAMA7G5): <<peri_id, security_type>>.
peri_security_array == <<
    <<"ID_DWDT_SW", "AS">>, <<"ID_DWDT_NSW", "NS">>,
    <<"ID_DWDT_NSW_ALARM", "AS">>, <<"ID_SCKC", "AS">>, <<"ID_SHDWC", "AS">>,
    <<"ID_RSTC", "AS">>, <<"ID_RTC", "AS">>, <<"ID_RTT", "AS">>,
    <<"ID_CHIPID", "PS">>, <<"ID_PMC", "AS">>, <<"ID_PIOA", "PS">>,
    <<"ID_PIOB", "PS">>, <<"ID_PIOC", "PS">>, <<"ID_PIOD", "PS">>,
    <<"ID_PIOE", "PS">>, <<"ID_SECUMOD", "AS">>, <<"ID_SECURAM", "AS">>,
    <<"ID_SFR", "PS">>, <<"ID_SFRBU", "AS">>, <<"ID_HSMC", "PS">>,
    <<"ID_XDMAC0", "PS">>, <<"ID_XDMAC1", "PS">>, <<"ID_XDMAC2", "PS">>,
    <<"ID_ACC", "PS">>, <<"ID_ADC", "PS">>, <<"ID_AES", "PS">>,
    <<"ID_TZAESBASC", "AS">>, <<"ID_ASRC", "PS">>, <<"ID_CPKCC", "PS">>,
    <<"ID_CSI", "PS">>, <<"ID_CSI2DC", "PS">>, <<"ID_DDRPUBL", "PS">>,
    <<"ID_DDRUMCTL", "PS">>, <<"ID_EIC", "PS">>, <<"ID_FLEXCOM0", "PS">>,
    <<"ID_FLEXCOM1", "PS">>, <<"ID_FLEXCOM2", "PS">>,
    <<"ID_FLEXCOM3", "PS">>, <<"ID_FLEXCOM4", "PS">>,
    <<"ID_FLEXCOM5", "PS">>, <<"ID_FLEXCOM6", "PS">>,
    <<"ID_FLEXCOM7", "PS">>, <<"ID_FLEXCOM8", "PS">>,
    <<"ID_FLEXCOM9", "PS">>, <<"ID_FLEXCOM10", "PS">>,
    <<"ID_FLEXCOM11", "PS">>, <<"ID_GMAC0", "PS">>, <<"ID_GMAC1", "PS">>,
    <<"ID_GMAC0_TSU", "PS">>, <<"ID_GMAC1_TSU", "PS">>, <<"ID_ICM", "AS">>,
    <<"ID_ISC", "PS">>, <<"ID_I2SMCC0", "PS">>, <<"ID_I2SMCC1", "PS">>,
    <<"ID_MATRIX", "AS">>, <<"ID_MCAN0", "PS">>, <<"ID_MCAN1", "PS">>,
    <<"ID_MCAN2", "PS">>, <<"ID_MCAN3", "PS">>, <<"ID_MCAN4", "PS">>,
    <<"ID_MCAN5", "PS">>, <<"ID_OTPC", "PS">>, <<"ID_PDMC0", "PS">>,
    <<"ID_PDMC1", "PS">>, <<"ID_PIT64B0", "PS">>, <<"ID_PIT64B1", "PS">>,
    <<"ID_PIT64B2", "PS">>, <<"ID_PIT64B3", "PS">>, <<"ID_PIT64B4", "PS">>,
    <<"ID_PIT64B5", "PS">>, <<"ID_PWM", "PS">>, <<"ID_QSPI0", "PS">>,
    <<"ID_QSPI1", "PS">>, <<"ID_SDMMC0", "PS">>, <<"ID_SDMMC1", "PS">>,
    <<"ID_SDMMC2", "PS">>, <<"ID_SHA", "PS">>, <<"ID_SPDIFRX", "PS">>,
    <<"ID_SPDIFTX", "PS">>, <<"ID_SSC0", "PS">>, <<"ID_SSC1", "PS">>,
    <<"ID_TC0_CHANNEL0", "PS">>, <<"ID_TC0_CHANNEL1", "PS">>,
    <<"ID_TC0_CHANNEL2", "PS">>, <<"ID_TC1_CHANNEL0", "PS">>,
    <<"ID_TC1_CHANNEL1", "PS">>, <<"ID_TC1_CHANNEL2", "PS">>,
    <<"ID_TCPCA", "PS">>, <<"ID_TCPCB", "PS">>, <<"ID_TDES", "PS">>,
    <<"ID_TRNG", "PS">>, <<"ID_TZAESB_NS", "PS">>,
    <<"ID_TZAESB_NS_SINT", "AS">>, <<"ID_TZAESB_S", "PS">>,
    <<"ID_TZAESB_S_SINT", "AS">>, <<"ID_TZC", "AS">>, <<"ID_UDPHSA", "PS">>,
    <<"ID_UDPHSB", "PS">>, <<"ID_UHPHS", "PS">>, <<"ID_XDMAC0_SINT", "PS">>,
    <<"ID_XDMAC1_SINT", "PS">>, <<"ID_XDMAC2_SINT", "PS">>,
    <<"ID_AES_SINT", "PS">>, <<"ID_GMAC0_Q1", "PS">>,
    <<"ID_GMAC0_Q2", "PS">>, <<"ID_GMAC0_Q3", "PS">>,
    <<"ID_GMAC0_Q4", "PS">>, <<"ID_GMAC0_Q5", "PS">>,
    <<"ID_GMAC1_Q1", "PS">>, <<"ID_ICM_SINT", "AS">>,
    <<"ID_MCAN0_INT1", "PS">>, <<"ID_MCAN1_INT1", "PS">>,
    <<"ID_MCAN2_INT1", "PS">>, <<"ID_MCAN3_INT1", "PS">>,
    <<"ID_MCAN4_INT1", "PS">>, <<"ID_MCAN5_INT1", "PS">>,
    <<"ID_PIOA_SINT", "PS">>, <<"ID_PIOB_SINT", "PS">>,
    <<"ID_PIOC_SINT", "PS">>, <<"ID_PIOD_SINT", "PS">>,
    <<"ID_PIOE_SINT", "PS">>, <<"ID_PIT64B5_SINT", "PS">>,
    <<"ID_SDMMC0_TIMER", "PS">>, <<"ID_SDMMC1_TIMER", "PS">>,
    <<"ID_SDMMC2_TIMER", "PS">>, <<"ID_SHA_SINT", "PS">>,
    <<"ID_TDES_SINT", "PS">>, <<"ID_TRNG_SINT", "PS">>,
    <<"ID_EXT_IRQ0", "PS">>, <<"ID_EXT_IRQ1", "PS">>
>>

\* platform_sama7g54.c, security_ps_peri_id (main.c carries the same list).
security_ps_peri_id == <<
    "ID_DWDT_SW", "ID_DWDT_NSW", "ID_DWDT_NSW_ALARM", "ID_SCKC", "ID_SHDWC",
    "ID_RSTC", "ID_RTC", "ID_RTT", "ID_CHIPID", "ID_PMC", "ID_PIOA",
    "ID_PIOB", "ID_PIOC", "ID_PIOD", "ID_PIOE", "ID_SECUMOD", "ID_SECURAM",
    "ID_SFR", "ID_SFRBU", "ID_HSMC", "ID_XDMAC0", "ID_XDMAC1", "ID_XDMAC2",
    "ID_ACC", "ID_ADC", "ID_AES", "ID_TZAESBASC", "ID_ASRC", "ID_CPKCC",
    "ID_CSI", "ID_CSI2DC", "ID_DDRPUBL", "ID_DDRUMCTL", "ID_EIC",
    "ID_FLEXCOM0", "ID_FLEXCOM1", "ID_FLEXCOM2", "ID_FLEXCOM3",
    "ID_FLEXCOM4", "ID_FLEXCOM5", "ID_FLEXCOM6", "ID_FLEXCOM7",
    "ID_FLEXCOM8", "ID_FLEXCOM9", "ID_FLEXCOM10", "ID_FLEXCOM11", "ID_GMAC0",
    "ID_GMAC1", "ID_GMAC0_TSU", "ID_GMAC1_TSU", "ID_ICM", "ID_ISC",
    "ID_I2SMCC0", "ID_I2SMCC1", "ID_MATRIX", "ID_MCAN0", "ID_MCAN1",
    "ID_MCAN2", "ID_MCAN3", "ID_MCAN4", "ID_MCAN5", "ID_OTPC", "ID_PDMC0",
    "ID_PDMC1", "ID_PIT64B0", "ID_PIT64B1", "ID_PIT64B2", "ID_PIT64B3",
    "ID_PIT64B4", "ID_PIT64B5", "ID_PWM", "ID_QSPI0", "ID_QSPI1",
    "ID_SDMMC0", "ID_SDMMC1", "ID_SDMMC2", "ID_SHA", "ID_SPDIFRX",
    "ID_SPDIFTX", "ID_SSC0", "ID_SSC1", "ID_TC0_CHANNEL0", "ID_TC0_CHANNEL1",
    "ID_TC0_CHANNEL2", "ID_TC1_CHANNEL0", "ID_TC1_CHANNEL1",
    "ID_TC1_CHANNEL2", "ID_TCPCA", "ID_TCPCB", "ID_TDES", "ID_TRNG",
    "ID_TZAESB_NS", "ID_TZAESB_NS_SINT", "ID_TZAESB_S", "ID_TZAESB_S_SINT",
    "ID_TZC", "ID_TZPM", "ID_UDPHSA", "ID_UDPHSB", "ID_UHPHS",
    "ID_XDMAC0_SINT", "ID_XDMAC1_SINT", "ID_XDMAC2_SINT", "ID_AES_SINT",
    "ID_GMAC0_Q1", "ID_GMAC0_Q2", "ID_GMAC0_Q3", "ID_GMAC0_Q4",
    "ID_GMAC0_Q5", "ID_GMAC1_Q1", "ID_ICM_SINT", "ID_MCAN0_INT1",
    "ID_MCAN1_INT1", "ID_MCAN2_INT1", "ID_MCAN3_INT1", "ID_MCAN4_INT1",
    "ID_MCAN5_INT1", "ID_PIOA_SINT", "ID_PIOB_SINT", "ID_PIOC_SINT",
    "ID_PIOD_SINT", "ID_PIOE_SINT", "ID_PIT64B0_SINT", "ID_PIT64B1_SINT",
    "ID_PIT64B2_SINT", "ID_PIT64B3_SINT", "ID_PIT64B4_SINT",
    "ID_PIT64B5_SINT", "ID_SDMMC0_TIMER", "ID_SDMMC1_TIMER",
    "ID_SDMMC2_TIMER", "ID_SHA_SINT", "ID_TC0_SINT0", "ID_TC0_SINT1",
    "ID_TC0_SINT2", "ID_TC1_SINT0", "ID_TC1_SINT1", "ID_TC1_SINT2",
    "ID_TDES_SINT", "ID_TRNG_SINT", "ID_EXT_IRQ0", "ID_EXT_IRQ1"
>>

MATRIX_SPSELR_COUNT == 3
PeriphWordBits == 32
PeriphMaxIdx == 3
PeriphMaxCalls == 3

\* The value of an ID_* constant: its position in the board's list, which
\* names every peripheral identifier once, counted from 0.
PeriId(name) ==
    (CHOOSE i \in DOMAIN security_ps_peri_id : security_ps_peri_id[i] = name)
        - 1

\* The bits of SPSELR word idx, as peripheral numbers.
PeriphWord(idx) == (idx * PeriphWordBits)..(idx * PeriphWordBits + 31)

\* get_peri_security: the index of the first entry with this id, 0 for NULL.
get_peri_security(peri_id) ==
    LET hits == {i \in DOMAIN peri_security_array :
                    peri_security_array[i][1] = peri_id}
    IN  IF hits = {} THEN 0
        ELSE CHOOSE i \in hits : \A j \in hits : i <= j

\* The security type of a peripheral, "none" when it has no entry.
PeriType(peri_id) ==
    IF get_peri_security(peri_id) = 0 THEN "none"
    ELSE peri_security_array[get_peri_security(peri_id)][2]

\* Peripheral numbers whose entry is not programmable-secure, or missing.
PeriphFixed ==
    {PeriId(security_ps_peri_id[i]) : i \in
        {j \in DOMAIN security_ps_peri_id :
            PeriType(security_ps_peri_id[j]) # "PS"}}

\* matrix_set_periph_world on the SPSELR contents sp (the set of peripheral
\* numbers whose bit is 1): the result, the new contents and the bits the
\* register write carried as 1.
matrix_set_periph_world(sp, peri_id, world) ==
    LET id == PeriId(peri_id)
        idx == id \div PeriphWordBits
        new == IF world = "secure" THEN sp \ {id} ELSE sp \cup {id}
    IN  IF idx > PeriphMaxIdx
        THEN [ret |-> -1, spselr |-> sp, ones |-> {}]
        ELSE [ret |-> 0, spselr |-> new,
              ones |-> new \cap PeriphWord(idx)]

\* matrix_configure_periph_secure.
matrix_configure_periph_secure(sp, peri_id) ==
    IF get_peri_security(peri_id) = 0
    THEN [ret |-> -1, spselr |-> sp, ones |-> {}]
    ELSE matrix_set_periph_world(sp, peri_id, "secure")

\* The loop of matrix_configure_periph_non_secure from element i on.
RECURSIVE periph_non_secure_from(_, _, _)
periph_non_secure_from(arr, i, acc) ==
    IF i > Len(arr) THEN [acc EXCEPT !.ret = 0]
    ELSE IF get_peri_security(arr[i]) = 0 THEN [acc EXCEPT !.ret = -1]
    ELSE IF PeriType(arr[i]) # "PS" THEN [acc EXCEPT !.ret = -1]
    ELSE LET w == matrix_set_periph_world(acc.spselr, arr[i], "non_secure")
         IN  IF w.ret # 0 THEN [acc EXCEPT !.ret = -1]
             ELSE periph_non_secure_from(arr, i + 1,
                      [ret |-> 0, spselr |-> w.spselr,
                       ones |-> acc.ones \cup w.ones])

\* matrix_configure_periph_non_secure.
matrix_configure_periph_non_secure(sp, arr) ==
    IF Len(arr) = 0 THEN [ret |-> -1, spselr |-> sp, ones |-> {}]
    ELSE periph_non_secure_from(arr, 1,
             [ret |-> 0, spselr |-> sp, ones |-> {}])

\* matrix_configure_slave: 0xFFFFFFFF into each of the SPSELR words.
matrix_configure_slave(sp) ==
    LET all == UNION {PeriphWord(i) : i \in 0..(MATRIX_SPSELR_COUNT - 1)}
    IN  [spselr |-> sp \cup all, ones |-> all]

\* Contents of the word after the last one the boot code writes, at reset.
PeriphResets == {{}, PeriphWord(MATRIX_SPSELR_COUNT)}

\* Identifiers handed to the two functions after boot: the timer's and the
\* PMC's (atmel_tcb_setup, sama7g5 clock setup), and one of every other
\* kind.
PeriphSamples ==
    {"ID_PMC", "ID_TC0_CHANNEL0", "ID_DWDT_NSW", "ID_TZPM", "ID_FLEXCOM0",
     "ID_PIOA_SINT", "ID_EXT_IRQ1"}

PeriphArrays ==
    {<<a>> : a \in PeriphSamples}
        \cup {<<a, b>> : a \in {"ID_FLEXCOM0", "ID_PIOA_SINT"},
                         b \in PeriphSamples}

InitPeriph ==
    /\ pc = "unregistered"
    /\ core_id = 0
    /\ parent_rate = input_min
    /\ frac_mul = 0
    /\ frac_frac = 0
    /\ achieved = 0
    /\ by_driver = FALSE
    /\ pll_updt = [id |-> 0, update |-> FALSE]
    /\ pll_ctrl0 = [i \in PllIds |-> Ctrl0Reset]
    /\ pll_ctrl1 = [i \in PllIds |-> [mul |-> 0, rsvd |-> 0, fracr |-> 0]]
    /\ pll_isr0 = [i \in PllIds |-> FALSE]
    /\ writes = <<>>
    /\ last = NoCall
    /\ FracIdle
    /\ mck_sr = MckSrIdle
    /\ race = RaceIdle
    /\ setup = SetupIdle
    /\ matrix = MatrixIdle
    /\ tcb = TcbIdle
    /\ periph = PeriphIdle

periphOther == <<clkState, parent_rate, mck_sr, race, setup, matrix, tcb>>

\* plat_primary_init_early: matrix_init runs matrix_configure_slave and
\* hands the board's list to matrix_configure_periph_non_secure; the result
\* is dropped by the caller.
PeriphMatrixInit(reset) ==
    /\ periph.pc = "off"
    /\ LET s == matrix_configure_slave(reset)
           r == matrix_configure_periph_non_secure(s.spselr,
                                                   security_ps_peri_id)
       IN  periph' = [pc |-> "on", spselr |-> r.spselr,
                      ones |-> s.ones \cup r.ones, init_ret |-> r.ret,
                      op |-> "matrix_init", arg |-> <<>>, ret |-> r.ret,
                      pre |-> reset, calls |-> 0]
    /\ UNCHANGED periphOther

\* A later matrix_configure_periph_secure(peri_id).
PeriphConfigureSecure(peri_id) ==
    /\ periph.pc = "on"
    /\ periph.calls < PeriphMaxCalls
    /\ LET r == matrix_configure_periph_secure(periph.spselr, peri_id)
       IN  periph' = [periph EXCEPT !.spselr = r.spselr,
                          !.ones = @ \cup r.ones, !.op = "secure",
                          !.arg = <<peri_id>>, !.ret = r.ret,
                          !.pre = periph.spselr, !.calls = @ + 1]
    /\ UNCHANGED periphOther

\* A later matrix_configure_periph_non_secure(arr, size).
PeriphConfigureNonSecure(arr) ==
    /\ periph.pc = "on"
    /\ periph.calls < PeriphMaxCalls
    /\ LET r == matrix_configure_periph_non_secure(periph.spselr, arr)
       IN  periph' = [periph EXCEPT !.spselr = r.spselr,
                          !.ones = @ \cup r.ones, !.op = "non_secure",
                          !.arg = arr, !.ret = r.ret,
                          !.pre = periph.spselr, !.calls = @ + 1]
    /\ UNCHANGED periphOther

NextPeriph ==
    \/ \E reset \in PeriphResets : PeriphMatrixInit(reset)
    \/ \E peri_id \in PeriphSamples : PeriphConfigureSecure(peri_id)
    \/ \E arr \in PeriphArrays : PeriphConfigureNonSecure(arr)

SpecPeriph == InitPeriph /\ [][NextPeriph]_vars

(***************************************************************************)
(* Claims about the fractional PLL.                                        *)
(***************************************************************************)
Abs(x) == IF x < 0 THEN 0 - x ELSE x

InCoreRange(r) == core_output_min <= r /\ r <= core_output_max

\* Largest whole number of Hz not above one fractional step parent_rate/2^22.
FracStep == parent_rate \div Pow2(FRAC_BITS)

\* C1: a set_rate request strictly below the core-output minimum or strictly
\* above the maximum returns an error, writes no register and leaves the
\* stored mul and frac as they were (the request is never clamped).
C1_OutOfRangeRejected ==
    (last.op = "frac_set_rate" /\ ~InCoreRange(last.arg))
        => /\ last.done
           /\ last.ret = -1
           /\ writes = <<>>
           /\ frac_mul = last.pre[1]
           /\ frac_frac = last.pre[2]

C1_Witness ==
    /\ last.op = "frac_set_rate"
    /\ last.arg = core_output_max + 1
    /\ last.ret = -1
    /\ by_driver
    /\ frac_frac # 0

\* C2 as claimed: every request inside [min, max] succeeds and the achieved
\* rate is within one fractional step of the request.
C2_InRangeNeverFails ==
    (last.op = "frac_set_rate" /\ InCoreRange(last.arg))
        => /\ last.ret = 0
           /\ Abs(achieved - last.arg) <= FracStep

\* C2 as amended: a request inside [min, max] either succeeds with an
\* achieved rate within one fractional step of the request, or fails with
\* the state untouched, and it fails only when the request is less than one
\* fractional step away from min or max.
C2_InRangeWithinStepOrEdge ==
    (last.op = "frac_set_rate" /\ InCoreRange(last.arg))
        => \/ /\ last.ret = 0
              /\ Abs(achieved - last.arg) <= FracStep
              /\ InCoreRange(achieved)
           \/ /\ last.ret = -1
              /\ frac_mul = last.pre[1]
              /\ frac_frac = last.pre[2]
              /\ \/ last.arg - core_output_min <= FracStep
                 \/ core_output_max - last.arg <= FracStep

C2_Witness ==
    /\ last.op = "frac_set_rate"
    /\ InCoreRange(last.arg)
    /\ last.ret = 0
    /\ last.done
    /\ achieved # last.arg
    /\ frac_frac # 0

\* C3: feeding the achieved rate of a successful computation back into
\* set_rate with the same parent rate succeeds, stores the same mul and frac
\* and achieves the same rate.
C3_Idempotent ==
    (last.op = "frac_set_rate" /\ last.pre[3] # 0 /\ last.arg = last.pre[3])
        => /\ last.ret = 0
           /\ frac_mul = last.pre[1]
           /\ frac_frac = last.pre[2]
           /\ achieved = last.arg

\* C4: for a fractional PLL whose state the driver computed, get_rate lies
\* in [min, max] and equals the rate the last successful computation returned.
C4_RateInRange ==
    (by_driver /\ pc \in {"idle", "poll"})
        => /\ InCoreRange(sam9x60_frac_pll_recalc_rate(frac_mul, frac_frac,
                                                        parent_rate))
           /\ sam9x60_frac_pll_recalc_rate(frac_mul, frac_frac, parent_rate)
                 = achieved

C4_Witness ==
    /\ by_driver
    /\ pc = "idle"
    /\ last.op = "frac_set_rate"
    /\ last.ret = -1
    /\ frac_frac # 0
    /\ achieved # core_output_min
    /\ frac_mul # last.arg

(***************************************************************************)
(* Claims about the divider PLL.                                           *)
(***************************************************************************)
Clamp8(x) == IF x > U8 - 1 THEN U8 - 1 ELSE IF x < 0 THEN 0 ELSE x

\* C5: after set_rate (either variant) with a nonzero target the stored
\* divisor is round(parent_rate / target) - 1 clamped into 0..255.
C5_DivisorClamped ==
    (last.op = "div_set_rate" /\ last.arg # 0)
        => div_div = Clamp8(DIV_ROUND_CLOSEST(parent_rate, last.arg) - 1)

\* C6: for two successive set_rate calls r1 then r2 with the same parent and
\* round(parent / r1) <= round(parent / r2), the rate read back after r2 is
\* not above the rate read back after r1.
C6_Monotone ==
    (/\ last.op = "div_set_rate"
     /\ last.pre[2] # 0
     /\ DIV_ROUND_CLOSEST(parent_rate, last.pre[2])
           <= DIV_ROUND_CLOSEST(parent_rate, last.arg))
        => sam9x60_div_pll_recalc_rate(div_div, parent_rate)
              <= sam9x60_div_pll_recalc_rate(last.pre[1], parent_rate)

(***************************************************************************)
(* Claims about the master clock.  last.pre is <<parent, div, parent rate>> *)
(* before the call.                                                        *)
(***************************************************************************)
RequestedRatio == DIV_ROUND_CLOSEST(last.pre[3], last.arg)

SupportedRatios == {1, 2, 4, 8, 16, 32, 64, 3}

\* C7: when round(parent_rate / target) is 3, set_rate succeeds and stores
\* the divide-by-3 code 7, so that get_rate returns parent_rate / 3.
C7_DivideByThree ==
    (last.op = "master_set_rate" /\ RequestedRatio = 3)
        => /\ last.ret = 0
           /\ master.div = 7
           /\ clk_sama7g5_master_get_rate(master.div, last.pre[3])
                 = last.pre[3] \div 3

\* C8 as claimed: every rounded ratio other than 1, 2, 4, 8, 16, 32, 64 and 3
\* (0 included) is rejected and the stored prescaler code is left unchanged.
C8_UnsupportedRejected ==
    (last.op = "master_set_rate" /\ RequestedRatio \notin SupportedRatios)
        => /\ last.ret = -1
           /\ master.div = last.pre[2]

\* C8 as amended: every rounded ratio other than 0, 1, 2, 4, 8, 16, 32, 64
\* and 3 is rejected and the stored prescaler code is left unchanged.
C8_UnsupportedNonZeroRejected ==
    (/\ last.op = "master_set_rate"
     /\ RequestedRatio \notin (SupportedRatios \cup {0}))
        => /\ last.ret = -1
           /\ master.div = last.pre[2]

C8_Witness ==
    /\ last.op = "master_set_rate"
    /\ RequestedRatio = 128
    /\ last.ret = -1
    /\ master.div = 2

\* C9: for k in 0..6 and a parent rate divisible by 2^k, set_rate(parent_rate
\* / 2^k) succeeds, stores code k, leaves the selected parent unchanged, and
\* get_rate then returns parent_rate / 2^k.
C9_PowerOfTwoRoundTrip ==
    last.op = "master_set_rate"
        => \A k \in 0 .. (MASTER_PRES_MAX - 1) :
              (/\ last.pre[3] % Pow2(k) = 0
               /\ last.arg = last.pre[3] \div Pow2(k))
                  => /\ last.ret = 0
                     /\ master.div = k
                     /\ master.parent = last.pre[1]
                     /\ clk_sama7g5_master_get_rate(master.div, last.pre[3])
                           = last.arg

\* 200 MHz from the 800 MHz parent selected at index 3.
C9_Witness ==
    /\ last.op = "master_set_rate"
    /\ last.pre[3] = 800000000
    /\ last.arg = 200000000
    /\ last.ret = 0
    /\ master.div = 2
    /\ last.pre[2] # 2
    /\ clk_sama7g5_master_get_parent(core_id, last.pre[1]) = 3
    /\ clk_sama7g5_master_get_parent(core_id, master.parent) = 3

\* C10: after a successful set_parent(i) the CSS field of the node's MCR_V2
\* register holds the sparse code mux_table[i].
C10_SetParentProgramsCode ==
    (last.op = "master_set_parent" /\ last.ret = 0)
        => mcr_v2[core_id].css = mux_table(core_id)[last.arg + 1]

\* C11: set_parent(i) with i >= num_parents returns an error, writes no
\* register and leaves the selected parent code and the prescaler unchanged.
C11_InvalidIndexRejected ==
    (last.op = "master_set_parent" /\ last.arg >= num_parents(core_id))
        => /\ last.ret = -1
           /\ master.parent = last.pre[1]
           /\ master.div = last.pre[2]
           /\ writes = <<>>

C11_Witness ==
    /\ last.op = "master_set_parent"
    /\ last.arg = num_parents(core_id)
    /\ last.ret = -1
    /\ master.parent = 2
    /\ master.parent # mcr_v2[core_id].css

(***************************************************************************)
(* Claims about construction.                                              *)
(***************************************************************************)
\* C12: immediately after registration of a divider PLL the stored divisor
\* equals the divider field of CTRL0 that the node's layout selects (DIVPMC
\* or DIVIO, every field value).
C12_DivReadBack ==
    last.op = "register_div"
        => div_div = Ctrl0Div(pll_ctrl0[core_id], div_layout)

C14_FracEnable ==
    last.op = "frac_enable"
        => /\ last.done => pll_isr0[core_id]
           /\ ~pll_isr0[core_id] => (~last.done /\ pc = "poll")
           /\ IF /\ last.pre[4].isr0[core_id]
                 /\ last.pre[4].ctrl1[core_id].mul = frac_mul
                 /\ last.pre[4].ctrl1[core_id].fracr = frac_frac
              THEN /\ last.done
                   /\ writes = <<"UPDT">>
                   /\ pll_ctrl1 = last.pre[4].ctrl1
                   /\ pll_ctrl0 = last.pre[4].ctrl0
              ELSE /\ writes = <<"UPDT", "ACR", "CTRL1", "UPDATE", "CTRL0",
                                 "UPDATE">>
                   /\ pll_updt = [id |-> core_id, update |-> TRUE]
                   /\ pll_ctrl1[core_id].mul = frac_mul % Pow2(MUL_BITS)
                   /\ pll_ctrl1[core_id].fracr = frac_frac % Pow2(FRAC_BITS)
                   /\ pll_ctrl0[core_id].enpll
                   /\ pll_ctrl0[core_id].enlock

\* Enable found the PLL unlocked and holding another multiplier, programmed
\* it and returned after the lock bit was raised.
C14_Witness ==
    /\ last.op = "frac_enable"
    /\ last.done
    /\ ~last.pre[4].isr0[core_id]
    /\ last.pre[4].ctrl1[core_id].mul # frac_mul
    /\ pll_ctrl1[core_id].mul = frac_mul
    /\ pll_isr0[core_id]
    /\ "CTRL1" \in {writes[i] : i \in 1 .. Len(writes)}

\* C15: clk_sama7g5_master_set commits the selected parent code and the
\* divisor of its id with one masked update of MCR_V2 (after the write that
\* selects the id), leaving the other master clocks alone; it reads the
\* master-ready bit if and only if the parent code it read from the register
\* before the update differs from the one it programs, and returns without
\* reading it when only the divisor changes.
C15_MasterCommit ==
    last.op = "master_enable"
        => /\ writes = <<"MCR_V2_ID", "MCR_V2">>
           /\ mcr_v2[core_id].css = master.parent
           /\ mcr_v2[core_id].div = master.div
           /\ \A i \in MasterIds \ {core_id} : mcr_v2[i] = last.pre[4][i]
           /\ last.done
                 => (mck_sr.sr_read
                        <=> last.pre[4][core_id].css # master.parent)
           /\ ~last.done => last.pre[4][core_id].css # master.parent

\* Only the divisor changed: committed, and PMC_SR was not read.
C15_Witness ==
    /\ last.op = "master_enable"
    /\ last.done
    /\ last.pre[4][core_id].css = master.parent
    /\ last.pre[4][core_id].div # master.div
    /\ mcr_v2[core_id].div = master.div
    /\ master.div = 2
    /\ ~mck_sr.sr_read

\* C16: the PLL operations take no lock around the sequence that selects
\* the PLL in PLL_UPDT and then accesses PLL_CTRL0 / PLL_CTRL1.  As long as
\* operations on different ids run one after another, every CTRL0 / CTRL1
\* access of an operation on id k is made while PLL_UPDT holds k; an access
\* made while PLL_UPDT holds the other id needs interleaved operations, and
\* such an interleaving exists.
C16_SerialAccessSelected == race.stray => race.overlap

\* Both operations are in progress and an enable of one PLL has written its
\* multiplier into the CTRL1 of the other.
C16_Witness ==
    /\ race.stray
    /\ race.overlap
    /\ race.procs[1].op = "frac_enable"
    /\ race.procs[2].op # "idle"
    /\ race.procs[1].mul = 99
    /\ pll_ctrl1[race.procs[2].id].mul = 99
    /\ pll_ctrl1[race.procs[1].id].mul # 99

\* C17: enabling a divider PLL whose hardware enable bit is set and whose
\* divider field equals the stored divisor writes neither CTRL0 nor the
\* update strobe; otherwise it writes the stored divisor and the enable bit
\* in one CTRL0 update, strobes the update for its id, and has returned only
\* once the ready bit of its id is set.
C17_DivEnable ==
    last.op = "div_enable"
        => LET was == last.pre[4].ctrl0[core_id]
           IN  IF /\ Ctrl0Endiv(was, div_layout)
                  /\ Ctrl0Div(was, div_layout) = div_div
               THEN /\ writes = <<"UPDT">>
                    /\ pll_ctrl0 = last.pre[4].ctrl0
                    /\ last.done
               ELSE /\ writes = <<"UPDT", "CTRL0", "UPDATE">>
                    /\ pll_ctrl0 =
                          [last.pre[4].ctrl0 EXCEPT ![core_id] =
                              IF div_layout = "divio"
                              THEN [@ EXCEPT !.divio = div_div,
                                             !.endivio = TRUE]
                              ELSE [@ EXCEPT !.divpmc = div_div,
                                             !.endivpmc = TRUE]]
                    /\ pll_updt = [id |-> core_id, update |-> TRUE]
                    /\ last.done => pll_isr0[core_id]

\* An enable that found the enable bit clear with the divider field already
\* equal to the stored divisor, wrote CTRL0 and has returned.
C17_Witness ==
    /\ last.op = "div_enable"
    /\ last.done
    /\ ~Ctrl0Endiv(last.pre[4].ctrl0[core_id], div_layout)
    /\ Ctrl0Div(last.pre[4].ctrl0[core_id], div_layout) = div_div
    /\ div_div # 0
    /\ writes = <<"UPDT", "CTRL0", "UPDATE">>
    /\ pll_isr0[core_id]

\* An enable that found the divider already set and enabled.
C17_WitnessNoWrite ==
    /\ last.op = "div_enable"
    /\ Ctrl0Endiv(last.pre[4].ctrl0[core_id], div_layout)
    /\ Ctrl0Div(last.pre[4].ctrl0[core_id], div_layout) = div_div
    /\ writes = <<"UPDT">>

\* C18: disabling a fractional PLL clears the enable bit of the PLL of its
\* own id and nothing else in CTRL0 or CTRL1, writes PMC_PLL_ACR only for a
\* upll PLL, ends with an update strobe for its id, returns without polling,
\* and leaves the stored mul and frac unchanged.
C18_FracDisable ==
    last.op = "frac_disable"
        => /\ pll_ctrl0 = [last.pre[4].ctrl0 EXCEPT ![core_id].enpll = FALSE]
           /\ pll_ctrl1 = last.pre[4].ctrl1
           /\ \A i \in PllIds \ {core_id} : pll_isr0[i] = last.pre[4].isr0[i]
           /\ (\E k \in 1 .. Len(writes) : writes[k] = "ACR") <=> upll
           /\ writes[1] = "UPDT"
           /\ writes[2] = "CTRL0"
           /\ writes[Len(writes)] = "UPDATE"
           /\ pll_updt = [id |-> core_id, update |-> TRUE]
           /\ last.done
           /\ pc = "idle"
           /\ frac_mul = last.pre[1]
           /\ frac_frac = last.pre[2]

\* A locked, enabled PLL with a nonzero stored fraction has been disabled.
C18_Witness ==
    /\ last.op = "frac_disable"
    /\ last.pre[4].ctrl0[core_id].enpll
    /\ last.pre[4].ctrl0[core_id].enlock
    /\ last.pre[4].isr0[core_id]
    /\ ~pll_ctrl0[core_id].enpll
    /\ pll_ctrl0[core_id].enlock
    /\ frac_frac # 0
    /\ pll_ctrl1[core_id].mul = frac_mul

\* C19: every node of the clock graph built by pmc_setup_sama7g5 is
\* registered only with parents registered (or obtained from the device
\* tree) earlier in the construction, so the parent relation is acyclic.
C19_ParentsRegisteredEarlier ==
    \A k \in 1 .. Len(setup.nodes) :
        \A i \in 1 .. Len(setup.nodes[k].parents) :
            \E j \in 1 .. (k - 1) :
                setup.nodes[j].n = setup.nodes[k].parents[i]

\* The same for the parents that are not read from parents[PARENT_SIZE].
C19_InBoundsParentsEarlier ==
    \A k \in 1 .. Len(setup.nodes) :
        \A i \in 1 .. Len(setup.nodes[k].parents) :
            i <= PARENT_SIZE
                => \E j \in 1 .. (k - 1) :
                      setup.nodes[j].n = setup.nodes[k].parents[i]

\* C20: after matrix_interrupt_init the values written to MATRIX_MEIER and
\* MATRIX_MEIMR have a set bit for each of the MATRIX_MASTER_COUNT masters.
C20_AllMastersEnabled ==
    matrix.pc = "on"
        => \A m \in MatrixMasters :
              /\ MatrixBit(matrix.meier, m)
              /\ MatrixBit(matrix.meimr, m)

\* C21: the 64-bit value (CV1 << 32 | CV0) built by atmel_tcb_get_sys_time
\* is non-decreasing across successive calls, including across the wrap of
\* channel 0.
C21_TimeNonDecreasing ==
    (tcb.pc = "on" /\ tcb.calls >= 2)
        => \/ tcb.prev[1] < tcb.cur[1]
           \/ /\ tcb.prev[1] = tcb.cur[1]
              /\ ~TcbLess([h |-> tcb.cur[2], l |-> tcb.cur[3]],
                          [h |-> tcb.prev[2], l |-> tcb.prev[3]])

\* C25: the time returned by atmel_tcb_get_sys_time has millis in 0..999,
\* for tcb_rate = 32768 and for every tcb_rate of at least 1000.
C25_MillisInRange ==
    (tcb.pc = "on" /\ tcb.calls >= 1)
        => tcb.time.millis \in 0 .. (TEE_TIME_MILLIS_BASE - 1)

\* The same for the rates that are a multiple of TEE_TIME_MILLIS_BASE.
C25_MillisInRangeExactRate ==
    (tcb.pc = "on" /\ tcb.calls >= 1
        /\ tcb.rate % TEE_TIME_MILLIS_BASE = 0)
        => tcb.time.millis \in 0 .. (TEE_TIME_MILLIS_BASE - 1)

\* C26: atmel_tcb_get_sys_time leaves its read loop only when the high word
\* read before the low word equals the high word read after it, and the
\* pair it combines is the pair the counters held when the low word was
\* read: no increment of the high word fell between the two reads.
C26_NoTornRead ==
    (tcb.pc = "on" /\ tcb.rd = "done")
        => /\ tcb.cur = <<tcb.hi, tcb.lo.h, tcb.lo.l>>
           /\ tcb.hi = tcb.at_lo

\* A call whose first iteration saw the high word change between its two
\* reads, went round the loop and returned the pair of the second
\* iteration.
C26_Witness ==
    /\ tcb.pc = "on"
    /\ tcb.rd = "done"
    /\ tcb.calls = 1
    /\ tcb.iters = 2
    /\ tcb.cur = <<2, 0, 1>>

\* The loop is left after finitely many iterations once the high word stops
\* changing between the reads.
C26_LoopExits ==
    (tcb.pc = "on" /\ tcb.rd = "lo") ~> (tcb.pc = "on" /\ tcb.rd = "done")

\* C22: whenever fractional PLL enable or set_rate has returned success, the
\* MUL and FRAC fields of the PLL's CTRL1 equal the stored mul and frac, the
\* stored frac is at most 2^22 - 1, and no bit outside the two fields is set.
C22_HardwareMatchesStored ==
    (last.op \in {"frac_enable", "frac_set_rate"} /\ last.done /\ last.ret = 0)
        => /\ pll_ctrl1[core_id].mul = frac_mul
           /\ pll_ctrl1[core_id].fracr = frac_frac
           /\ frac_frac <= Pow2(FRAC_BITS) - 1
           /\ pll_ctrl1[core_id].rsvd = 0

\* The same for stored fractional words that fit the FRAC field.
C22_MatchesWithinField ==
    (last.op \in {"frac_enable", "frac_set_rate"} /\ last.done /\ last.ret = 0
        /\ frac_frac <= Pow2(FRAC_BITS) - 1)
        => /\ pll_ctrl1[core_id].mul = frac_mul
           /\ pll_ctrl1[core_id].fracr = frac_frac
           /\ pll_ctrl1[core_id].rsvd = 0

\* C23: every index at which pmc_setup_sama7g5 writes parents[] is below
\* PARENT_SIZE and every parent count it passes with the array is at most
\* PARENT_SIZE.
C23_ParentsInBounds ==
    \A k \in 1 .. Len(setup.nodes) :
        /\ setup.nodes[k].arr.top < PARENT_SIZE
        /\ setup.nodes[k].arr.count <= PARENT_SIZE

\* The same for every registration but those of the programmable clocks.
C23_InBoundsButProgrammable ==
    \A k \in 1 .. Len(setup.nodes) :
        SetupTable[k].k # "prog"
            => /\ setup.nodes[k].arr.top < PARENT_SIZE
               /\ setup.nodes[k].arr.count <= PARENT_SIZE

\* The index get_parent returns in the current state.
MasterParentIndex == clk_sama7g5_master_get_parent(core_id, master.parent)

MasterCodes(id) == {mux_table(id)[i] : i \in 1 .. num_parents(id)}

\* C24 as stated: in every state after registration and any sequence of
\* set_parent calls, get_parent returns an index i < num_parents with
\* mux_table[i] equal to the selected parent code.
C24_GetParentValid ==
    pc = "idle"
        => /\ MasterParentIndex < num_parents(core_id)
           /\ mux_table(core_id)[MasterParentIndex + 1] = master.parent

\* C24, corrected: get_parent returns such an index unless the stored code
\* is still the one read from the hardware at registration and that code is
\* not in the node's mux_table, in which case it returns (uint8_t)-1; after
\* a successful set_parent(i) it returns i.
C24_GetParentValidOrBootCode ==
    pc = "idle"
        => /\ \/ /\ MasterParentIndex < num_parents(core_id)
                 /\ mux_table(core_id)[MasterParentIndex + 1] = master.parent
              \/ /\ MasterParentIndex = U8 - 1
                 /\ master.parent = mcr_v2[core_id].css
                 /\ mcr_v2[core_id].css \notin MasterCodes(core_id)
           /\ (last.op = "master_set_parent" /\ last.ret = 0)
                 => MasterParentIndex = last.arg

\* A node registered with a code outside its table, after set_parent on the
\* index of its extra parent, whose code differs from the index.
C24_Witness ==
    /\ pc = "idle"
    /\ mcr_v2[core_id].css \notin MasterCodes(core_id)
    /\ last.op = "master_set_parent"
    /\ last.ret = 0
    /\ last.arg = 4
    /\ last.pre[1] = mcr_v2[core_id].css
    /\ master.parent = 6
    /\ MasterParentIndex = 4

(***************************************************************************)
(* Claims about the peripheral security selection.                         *)
(***************************************************************************)
\* C27: the list matrix_init hands to matrix_configure_periph_non_secure is
\* accepted: every identifier in it has an entry of type PS, the call
\* returns 0, and it has set every listed peripheral's SPSELR bit.
C27_BootListAccepted ==
    (periph.pc = "on" /\ periph.op = "matrix_init")
        => /\ \A i \in DOMAIN security_ps_peri_id :
                  PeriType(security_ps_peri_id[i]) = "PS"
           /\ periph.init_ret = 0
           /\ \A i \in DOMAIN security_ps_peri_id :
                  PeriId(security_ps_peri_id[i]) \in periph.spselr

\* What the boot call does instead: it fails on the list's first element
\* and leaves the words exactly as matrix_configure_slave wrote them.
C27_BootStopsAtFirst ==
    (periph.pc = "on" /\ periph.op = "matrix_init")
        => /\ PeriType(security_ps_peri_id[1]) = "AS"
           /\ periph.init_ret = -1
           /\ periph.spselr = matrix_configure_slave(periph.pre).spselr

\* C28: over the boot path and every later call, no register write carries
\* a 1 in the SPSELR bit of a peripheral whose entry is AS or NS, or that
\* has no entry.
C28_OnlyPsOpened ==
    periph.pc = "on" => periph.ones \cap PeriphFixed = {}

\* matrix_configure_periph_non_secure returns -1 for an array holding such
\* an identifier and leaves that peripheral's bit as it was.
C28_RejectsWithoutWriting ==
    (periph.pc = "on" /\ periph.op = "non_secure")
        => \A i \in DOMAIN periph.arg :
               PeriType(periph.arg[i]) # "PS"
                   => /\ periph.ret = -1
                      /\ (PeriId(periph.arg[i]) \in periph.spselr)
                             <=> (PeriId(periph.arg[i]) \in periph.pre)

\* The calls after boot turn a bit from 0 to 1 only for a PS peripheral.
C28_LaterCallsOpenOnlyPs ==
    (periph.pc = "on" /\ periph.op \in {"secure", "non_secure"})
        => (periph.spselr \ periph.pre) \cap PeriphFixed = {}

====
